---- MODULE Spec2Model ----
(***************************************************************************)
(* Watch-together room client: the Presence / Host-Election module         *)
(* (js/presence.js PresenceManager), the video adapter (js/presence.js     *)
(* VideoPlayer) and the synchronization controller (RoomManager) over a    *)
(* shared store holding rooms/{id}/state and rooms/{id}/presence.          *)
(*                                                                         *)
(* Times are integers in milliseconds.  RoomState.time and the player      *)
(* position, which the source keeps in (floating point) seconds, are kept  *)
(* in milliseconds too, so 0.4 s is 400 and remoteTime is                  *)
(* time + timeSinceUpdate.                                                 *)
(***************************************************************************)
EXTENDS Integers, Sequences, FiniteSets, TLC

(***************************************************************************)
(* Bounds of the model.                                                    *)
(***************************************************************************)
\* clients (RoomManager instances) that run the protocol in Spec
NumClients == 2
\* user ids that may own a PresenceEntry (the clients and other users)
NumUsers == 3
\* Date.now() in the initial state, in ms
StartTime == 100000
\* steps of the clock in one behaviour of SpecSync
MaxAdvances == 3
\* inputs from outside (the user's gestures, the host's writes) in one behaviour
\* of SpecSync
MaxInputs == 1
\* steps of the clock in one behaviour of Spec
MaxSteps == 1
\* gestures of the users in one behaviour of Spec
MaxGestures == 1
\* gestures of the user in one behaviour of SpecControls
MaxCalls == 2
\* steps of the clock in one behaviour of SpecSession or SpecDebounce
MaxTicks == 8
\* calls of sendMessage in one behaviour of SpecChat
MaxSends == 3
\* duration of every video, in ms: the backend keeps its position in 0..VideoLen
VideoLen == 200000

(***************************************************************************)
(* Program constants.                                                      *)
(***************************************************************************)
\* presence.js:74   const timeoutMs = 60000
timeoutMs == 60000
\* presence.js:87   isOnline: timeSinceLastSeen < 35000
onlineMs == 35000
\* presence.js:10   this.hostId = null (also a RoomState without hostId)
NoUser == 0
\* part_000:441    if (timeSinceUpdate > 10000 && !force) return
ignoreOldMs == 10000
\* part_000:450    if (drift > 0.4 || force)
driftMs == 400
\* part_000:480    setInterval(..., 5000)
syncIntervalMs == 5000
\* the period of the heartbeat of startHeartbeat, in ms
heartbeatMs == 30000
\* the delay of the typing timeout of handleTyping, in ms
typingMs == 2000

Clients == 1..NumClients
UserIds == 1..NumUsers

VARIABLES
    now,            \* Date.now()
    dbState,        \* store: rooms/{roomId}/state
    dbPresence,     \* store: rooms/{roomId}/presence/{userId}
    lastWriter,     \* the client whose write produced the value of rooms/{roomId}/state
    advances,       \* steps the clock has made
    inputs,         \* inputs from outside so far
    isHost,         \* RoomManager.isHost, per client
    currentState,   \* RoomManager.currentState, per client
    isUpdatingFromRemote,   \* RoomManager.isUpdatingFromRemote, per client
    nextTick,       \* when the setInterval of startSyncInterval fires next (0: no timer)
    vp,             \* RoomManager.videoPlayer with its backend, per client
    users,          \* PresenceManager.users (a Map, in insertion order), per client
    hostId,         \* PresenceManager.hostId, per client
    viewersCount,   \* #viewers-count text written by updateViewersCount, per client
    tasks,          \* async functions suspended at an await, per client
    stateSub,       \* the client's onValue listener on rooms/{roomId}/state is attached
    presSub,        \* the client's onValue listener on rooms/{roomId}/presence is attached
    stateDirty,     \* a value of state the listener has not been called with yet
    presDirty,      \* a value of presence the listener has not been called with yet
    destroyed,      \* RoomManager.destroy() has been called, per client
    heartbeatInterval,  \* when the setInterval of startHeartbeat fires next (0: no timer)
    debounceTimeout,    \* the pending timeout of the debounced #seek-slider listener
    typingTimeout,  \* when ChatManager.typingTimeout fires (0: no timer), per client
    isTyping,       \* ChatManager.isTyping, per client
    dbTyping,       \* store: rooms/{roomId}/typing/{userId} is present
    rateLimiterCalls,   \* ChatManager.rateLimiter.calls, per client
    sendLog,        \* the calls of sendMessage with a valid text so far, per client
    dbChat,         \* store: rooms/{roomId}/chat, the messages pushed, in order
    ev              \* the handler that ran last, with what it was given and what it called

envVars == <<now, advances, inputs>>
storeVars == <<dbState, dbPresence, lastWriter>>
pmVars == <<users, hostId, viewersCount>>
rmVars == <<currentState, isUpdatingFromRemote, nextTick, vp>>
subVars == <<stateSub, presSub>>
lifeVars == <<destroyed, heartbeatInterval, debounceTimeout>>
chatVars == <<typingTimeout, isTyping, dbTyping, rateLimiterCalls, sendLog, dbChat>>
vars == <<now, advances, inputs, dbState, dbPresence, lastWriter, isHost, currentState,
          isUpdatingFromRemote, nextTick, vp, users, hostId, viewersCount, tasks,
          stateSub, presSub, stateDirty, presDirty, destroyed, heartbeatInterval,
          debounceTimeout, typingTimeout, isTyping, dbTyping, rateLimiterCalls,
          sendLog, dbChat,
          ev>>

(***************************************************************************)
(* The store.                                                              *)
(***************************************************************************)
\* rooms/{roomId}/state before any write: snapshot.val() is null
NoState ==
    [exists |-> FALSE, url |-> "", time |-> 0, playing |-> FALSE,
     updatedAt |-> 0, hostId |-> NoUser]

\* rooms/{roomId}/presence/{userId} when absent
NoEntry == [present |-> FALSE, name |-> "", joinedAt |-> 0, lastSeen |-> 0]

\* the updates argument of updateRoomState: the fields it names and their values
Upd(has, url, time, playing) ==
    [has |-> has, url |-> url, time |-> time, playing |-> playing]

NoUpd == Upd({}, "", 0, FALSE)

\* no call of the debounced function is pending
NoTimeout == [at |-> 0, value |-> 0, input |-> 0]

\* an async function suspended at an await: its kind and its arguments
Task(kind, host, time, upd) == [kind |-> kind, host |-> host, time |-> time, upd |-> upd]

(***************************************************************************)
(* PresenceManager (js/presence.js).                                       *)
(***************************************************************************)
\* userData.lastSeen || userData.joinedAt || now     (0 models a missing field)
lastSeenOf(userData, t) ==
    IF userData.lastSeen # 0 THEN userData.lastSeen
    ELSE IF userData.joinedAt # 0 THEN userData.joinedAt
    ELSE t

\* a filter that keeps every entry
seenEver(userData, t) == TRUE
\* timeSinceLastSeen < timeoutMs: the entry is kept in this.users
seenRecently(userData, t) == t - lastSeenOf(userData, t) < timeoutMs

\* an online window that includes its end
isOnlineUpTo(userData, t) == t - lastSeenOf(userData, t) <= onlineMs
\* isOnline: timeSinceLastSeen < 35000
isOnline(userData, t) == t - lastSeenOf(userData, t) < onlineMs

\* this.users after the forEach of updatePresence: the snapshot's entries, in the
\* snapshot's order, without the stale ones, each with its isOnline flag
filterStale(presenceData, t) ==
    LET tagged == [i \in DOMAIN presenceData |->
                      [userId   |-> presenceData[i].userId,
                       name     |-> presenceData[i].name,
                       joinedAt |-> presenceData[i].joinedAt,
                       lastSeen |-> presenceData[i].lastSeen,
                       isOnline |-> isOnline(presenceData[i], t)]]
    IN  SelectSeq(tagged, LAMBDA u : seenRecently(u, t))

\* the comparator of updateHost's sort: a.joinedAt - b.joinedAt; with a missing
\* joinedAt the difference is NaN, which sort treats as 0
compareJoinedAt(a, b) ==
    IF a.joinedAt = 0 \/ b.joinedAt = 0 THEN 0 ELSE a.joinedAt - b.joinedAt

\* Array.prototype.sort is stable: x goes after every element that is not greater
RECURSIVE insertSorted(_, _)
insertSorted(x, sorted) ==
    IF sorted = <<>> THEN <<x>>
    ELSE IF compareJoinedAt(Head(sorted), x) <= 0
         THEN <<Head(sorted)>> \o insertSorted(x, Tail(sorted))
         ELSE <<x>> \o sorted

RECURSIVE sortByJoinedAt(_)
sortByJoinedAt(s) ==
    IF s = <<>> THEN <<>>
    ELSE insertSorted(s[Len(s)], sortByJoinedAt(SubSeq(s, 1, Len(s) - 1)))

\* updateHost: onlineUsers = users.filter(isOnline).sort(joinedAt)
onlineUsers(us) == sortByJoinedAt(SelectSeq(us, LAMBDA u : u.isOnline))

\* updateHost: newHostId = onlineUsers.length > 0 ? onlineUsers[0][0] : null
newHostId(us) ==
    IF Len(onlineUsers(us)) > 0 THEN onlineUsers(us)[1].userId ELSE NoUser

\* updateViewersCount: users.filter(isOnline).length
countOnline(us) == Len(SelectSeq(us, LAMBDA u : u.isOnline))

\* updatePresence(presenceData) with the updateHost it calls, for client c at
\* Date.now() = t.  An empty snapshot is snapshot.val() = null.
updatePresence(c, presenceData) ==
    LET us       == IF presenceData = <<>> THEN <<>> ELSE filterStale(presenceData, now)
        elected  == newHostId(us)
        changed  == presenceData # <<>> /\ elected # hostId[c]
    IN  /\ users' = [users EXCEPT ![c] = us]
        /\ viewersCount' = [viewersCount EXCEPT ![c] = countOnline(us)]
        /\ hostId' = [hostId EXCEPT ![c] = IF changed THEN elected ELSE @]
        \* updateRoomHost(newHostId) runs to its await import
        /\ tasks' = [tasks EXCEPT ![c] =
                        IF changed THEN @ \cup {Task("updateRoomHost", elected, 0, NoUpd)} ELSE @]
        \* onHostChangeCallback(newHostId, previousHostId): RoomManager's callback
        /\ isHost' = [isHost EXCEPT ![c] = IF changed THEN elected = c ELSE @]
        /\ ev' = [op |-> "updatePresence", c |-> c, snap |-> presenceData, t |-> now,
                  previousHostId |-> hostId[c],
                  updateRoomHost |-> IF changed THEN <<elected>> ELSE <<>>,
                  callback |-> IF changed THEN <<elected, hostId[c]>> ELSE <<>>]

(***************************************************************************)
(* Strings, as JavaScript's String methods and `new URL` treat the         *)
(* locators the model uses (http and https locators without port, user     *)
(* info, fragment or percent escapes).                                     *)
(***************************************************************************)
\* pat occurs in str at index i (from 1)
occursAt(str, pat, i) ==
    /\ i >= 1 /\ i + Len(pat) - 1 <= Len(str)
    /\ SubSeq(str, i, i + Len(pat) - 1) = pat

\* String.prototype.includes
includes(str, pat) == \E i \in 1..Len(str) : occursAt(str, pat, i)

\* String.prototype.endsWith
endsWith(str, pat) == occursAt(str, pat, Len(str) - Len(pat) + 1)

UpperCase == "ABCDEFGHIJKLMNOPQRSTUVWXYZ"
LowerCase == "abcdefghijklmnopqrstuvwxyz"
Digits == "0123456789"

lowerChar(ch) ==
    IF \E i \in 1..Len(UpperCase) : SubSeq(UpperCase, i, i) = ch
    THEN LET i == CHOOSE k \in 1..Len(UpperCase) : SubSeq(UpperCase, k, k) = ch
         IN  SubSeq(LowerCase, i, i)
    ELSE ch

\* String.prototype.toLowerCase
RECURSIVE toLowerCase(_)
toLowerCase(str) ==
    IF str = "" THEN "" ELSE lowerChar(Head(str)) \o toLowerCase(Tail(str))

isDigit(ch) == \E i \in 1..Len(Digits) : SubSeq(Digits, i, i) = ch

\* the first index from `from` on at which str has one of chars, Len(str) + 1
\* if there is none
firstOf(str, chars, from) ==
    LET hits == {i \in from..Len(str) : SubSeq(str, i, i) \in chars}
    IN  IF hits = {} THEN Len(str) + 1
        ELSE CHOOSE i \in hits : \A j \in hits : i <= j

\* the length of "http://" or "https://" at the head of url, 0 if neither
schemeLen(url) ==
    IF occursAt(url, "https://", 1) THEN 8
    ELSE IF occursAt(url, "http://", 1) THEN 7
    ELSE 0

\* new URL(url) does not throw: url is absolute and has a host
urlParses(url) ==
    /\ schemeLen(url) > 0
    /\ firstOf(url, {"/", "?", "#"}, schemeLen(url) + 1) > schemeLen(url) + 1

\* new URL(url).hostname
hostnameOf(url) ==
    toLowerCase(SubSeq(url, schemeLen(url) + 1,
                       firstOf(url, {"/", "?", "#"}, schemeLen(url) + 1) - 1))

\* new URL(url).pathname
pathnameOf(url) ==
    LET from == firstOf(url, {"/", "?", "#"}, schemeLen(url) + 1)
        to   == firstOf(url, {"?", "#"}, from)
    IN  IF to = from THEN "/" ELSE SubSeq(url, from, to - 1)

\* new URL(url).search without its "?"
searchOf(url) ==
    LET from == firstOf(url, {"?", "#"}, schemeLen(url) + 1)
    IN  IF from <= Len(url) /\ SubSeq(url, from, from) = "?"
        THEN SubSeq(url, from + 1, firstOf(url, {"#"}, from) - 1)
        ELSE ""

\* where the parameter `name` starts in a query string (0: it has none)
paramAt(query, name) ==
    LET hits == {i \in 1..Len(query) :
                    /\ occursAt(query, name \o "=", i)
                    /\ i = 1 \/ SubSeq(query, i - 1, i - 1) = "&"}
    IN  IF hits = {} THEN 0 ELSE CHOOSE i \in hits : \A j \in hits : i <= j

\* searchParams.has(name)
hasParam(query, name) == paramAt(query, name) # 0

\* searchParams.get(name)
getParam(query, name) ==
    LET from == paramAt(query, name) + Len(name) + 1
    IN  SubSeq(query, from, firstOf(query, {"&"}, from) - 1)

\* the last index of the run of digits of str that starts at from
RECURSIVE digitsEnd(_, _)
digitsEnd(str, from) ==
    IF from + 1 <= Len(str) /\ isDigit(SubSeq(str, from + 1, from + 1))
    THEN digitsEnd(str, from + 1)
    ELSE from

\* str.match(/\/(\d+)/): the digits matched, "" if there is no match
slashDigits(str) ==
    LET hits == {i \in 1..(Len(str) - 1) :
                    SubSeq(str, i, i) = "/" /\ isDigit(SubSeq(str, i + 1, i + 1))}
    IN  IF hits = {} THEN ""
        ELSE LET i == CHOOSE k \in hits : \A j \in hits : k <= j
             IN  SubSeq(str, i + 1, digitsEnd(str, i + 1))

(***************************************************************************)
(* validateVideoUrl (js/app.js).                                           *)
(***************************************************************************)
YouTubeUrl == "https://www.youtube.com/watch?v=XYZ"
VimeoUrl == "https://vimeo.com/12345"
Mp4Url == "https://cdn.example.com/foo.mp4"
BadUrl == "https://example.com/notvideo"
\* a youtube.com locator without a video id: cleanYouTubeUrl returns it as it is
NoIdUrl == "https://www.youtube.com/playlist?list=PL1"

\* cleanYouTubeUrl(url), for a url that parses
cleanYouTubeUrl(url) ==
    LET videoId == IF hostnameOf(url) = "youtu.be"
                   THEN SubSeq(pathnameOf(url), 2, Len(pathnameOf(url)))
                   ELSE IF hasParam(searchOf(url), "v") THEN getParam(searchOf(url), "v")
                   ELSE ""
    IN  IF videoId # "" THEN "https://www.youtube.com/watch?v=" \o videoId ELSE url

\* cleanVimeoUrl(url), for a url that parses
cleanVimeoUrl(url) ==
    IF slashDigits(pathnameOf(url)) # ""
    THEN "https://vimeo.com/" \o slashDigits(pathnameOf(url))
    ELSE url

\* a result that accepts every locator as a direct file
acceptAll(url) == [ok |-> TRUE, type |-> "mp4", url |-> url]

\* the result for a locator that is neither youtube nor vimeo
validateOther(url) ==
    IF \/ includes(toLowerCase(url), ".mp4")
       \/ endsWith(toLowerCase(pathnameOf(url)), ".mp4")
    THEN [ok |-> TRUE, type |-> "mp4", url |-> url]
    ELSE [ok |-> FALSE, type |-> "", url |-> ""]

\* validateVideoUrl(url): {type, url} or null (ok = FALSE)
validateVideoUrl(url) ==
    IF ~urlParses(url) THEN [ok |-> FALSE, type |-> "", url |-> ""]
    ELSE IF \/ includes(hostnameOf(url), "youtube.com")
            \/ includes(hostnameOf(url), "youtu.be")
         THEN [ok |-> TRUE, type |-> "youtube", url |-> cleanYouTubeUrl(url)]
    ELSE IF includes(hostnameOf(url), "vimeo.com")
         THEN [ok |-> TRUE, type |-> "vimeo", url |-> cleanVimeoUrl(url)]
    ELSE validateOther(url)

\* the locators users type and records hold in the model
Locators ==
    {"", YouTubeUrl, "https://youtu.be/XYZ", VimeoUrl, "https://vimeo.com/video/12345",
     Mp4Url, "https://cdn.example.com/foo.MP4", "foo.mp4", "foo.MP4", BadUrl, NoIdUrl,
     "https://example.com/foo.mp4.html", "https://example.com/foo.webm"}

\* validateVideoUrl on those locators
validated == [url \in Locators |-> validateVideoUrl(url)]

(***************************************************************************)
(* VideoPlayer (js/presence.js) and the backend it wraps.                  *)
(*   type, isReady, currentTime, playing, cbUpdateState, cbUrl: the        *)
(*     adapter's fields (callbacks are those of RoomManager.loadVideo,     *)
(*     which close over updateState and validatedUrl.url);                 *)
(*   loading, pos, bplaying, events: the backend (YT.Player, Vimeo.Player  *)
(*     or the video element): whether its ready signal is still to come,   *)
(*     its position, whether it plays, and the play / pause / seeked       *)
(*     events it has queued for the adapter's listeners;                   *)
(*   volume, muted: the adapter's fields, volume in percent (0.5 is 50);   *)
(*   bvolume, bmuted: the backend's volume and mute switch;                *)
(*   loops: the trackTime closures of startTimeTracking that are scheduled *)
(*     with requestAnimationFrame, each given by its lastTime.             *)
(***************************************************************************)
\* new VideoPlayer()
NoPlayer ==
    [type |-> "", isReady |-> FALSE, currentTime |-> 0, playing |-> FALSE,
     cbUpdateState |-> FALSE, cbUrl |-> "",
     duration |-> 0, volume |-> 50, muted |-> FALSE,
     loading |-> FALSE, pos |-> 0, bplaying |-> FALSE, events |-> <<>>,
     bvolume |-> 100, bmuted |-> FALSE, loops |-> <<>>]

Abs(x) == IF x < 0 THEN -x ELSE x

\* the backend keeps its position inside the video
clampPos(t) == IF t < 0 THEN 0 ELSE IF t > VideoLen THEN VideoLen ELSE t

\* pat occurs in str and is followed by a character that is none of stops
followedAt(str, pat, stops) ==
    \E i \in 1..Len(str) :
        /\ occursAt(str, pat, i)
        /\ i + Len(pat) <= Len(str)
        /\ SubSeq(str, i + Len(pat), i + Len(pat)) \notin stops

\* extractYouTubeId(url) is not null: one of its two patterns matches
extractsYouTubeId(url) ==
    \E pat \in {"youtube.com/watch?v=", "youtu.be/", "youtube.com/embed/",
                "youtube.com/v/"} : followedAt(url, pat, {"&", "?", "#"})

\* extractVimeoId(url) is not null: /vimeo\.com\/(?:video\/)?(\d+)/ matches
extractsVimeoId(url) ==
    \E pat \in {"vimeo.com/", "vimeo.com/video/"} :
        \E i \in 1..Len(url) :
            /\ occursAt(url, pat, i)
            /\ i + Len(pat) <= Len(url)
            /\ isDigit(SubSeq(url, i + Len(pat), i + Len(pat)))

\* extractYouTubeId(url) / extractVimeoId(url) return an id (the direct file
\* needs none)
hasVideoId(type, url) ==
    \/ type = "youtube" /\ extractsYouTubeId(url)
    \/ type = "vimeo" /\ extractsVimeoId(url)
    \/ type = "mp4"

\* hasVideoId on the locators of the model
videoIds ==
    [type \in {"youtube", "vimeo", "mp4"}, url \in Locators |-> hasVideoId(type, url)]

\* VideoPlayer.loadVideo(type, url, callbacks) up to the backend's creation:
\* callbacks, type and isReady_ are overwritten and the old backend is
\* destroyed; then a new backend is created (for youtube with a new trackTime
\* loop, lastTime = 0), unless no id is extracted from url and the call throws.
\* currentTime, playing, duration, volume and muted are left as they are
vpLoadVideo(p, type, url, updateState) ==
    [p EXCEPT !.type = type, !.isReady = FALSE,
              !.cbUpdateState = updateState, !.cbUrl = url,
              !.loading = videoIds[type, url],
              !.pos = 0, !.bplaying = FALSE, !.events = <<>>,
              !.bvolume = 100, !.bmuted = FALSE,
              !.loops = IF type = "youtube" /\ videoIds[type, url]
                        THEN Append(@, 0) ELSE @]

\* VideoPlayer.play(): playVideo() / player.play(); the backend starts and
\* queues its play event
vpPlay(p) ==
    IF ~p.isReady \/ p.bplaying THEN p
    ELSE [p EXCEPT !.bplaying = TRUE, !.events = Append(@, "play")]

\* VideoPlayer.pause()
vpPause(p) ==
    IF ~p.isReady \/ ~p.bplaying THEN p
    ELSE [p EXCEPT !.bplaying = FALSE, !.events = Append(@, "pause")]

\* VideoPlayer.seek(time) up to its first await: youtube and mp4 set
\* this.currentTime in the same turn, vimeo after await setCurrentTime(time);
\* vimeo and the video element queue a seeked event
vpSeek(p, time) ==
    IF ~p.isReady THEN p
    ELSE IF p.type = "youtube"
         THEN [p EXCEPT !.pos = clampPos(time), !.currentTime = time]
    ELSE IF p.type = "vimeo"
         THEN [p EXCEPT !.pos = clampPos(time), !.events = Append(@, "seeked")]
    ELSE [p EXCEPT !.pos = clampPos(time), !.currentTime = time,
                   !.events = Append(@, "seeked")]

\* VideoPlayer.seek suspends at an await only for vimeo
seekAwaits(p) == p.isReady /\ p.type = "vimeo"

\* VideoPlayer.getCurrentTime()
getCurrentTime(p) ==
    IF ~p.isReady THEN 0
    ELSE IF p.type = "vimeo" THEN p.currentTime
    ELSE p.pos

\* VideoPlayer.getDuration(): this.duration || 0
getDuration(p) == p.duration

\* VideoPlayer.setVolume(volume), volume in percent: this.volume is assigned
\* before the isReady_ test
vpSetVolume(p, volume) ==
    LET v == IF volume < 0 THEN 0 ELSE IF volume > 100 THEN 100 ELSE volume
    IN  IF ~p.isReady THEN [p EXCEPT !.volume = v]
        ELSE [p EXCEPT !.volume = v, !.bvolume = v]

\* VideoPlayer.toggleMute() of youtube and mp4 (vimeo's awaits getVolume())
vpToggleMute(p) ==
    IF ~p.isReady \/ p.type = "vimeo" THEN p
    ELSE [p EXCEPT !.bmuted = ~@, !.muted = ~p.bmuted]

\* VideoPlayer.toggleMute() of vimeo after await this.player.getVolume()
vpToggleMuteVimeo(p) ==
    IF p.bvolume > 0
    THEN [p EXCEPT !.volume = p.bvolume, !.bvolume = 0, !.muted = TRUE]
    ELSE [p EXCEPT !.bvolume = p.volume, !.muted = FALSE]

\* VideoPlayer.toggleMute suspends at an await only for vimeo
toggleMuteAwaits(p) == p.isReady /\ p.type = "vimeo"

\* VideoPlayer.isMuted()
isMuted(p) ==
    IF ~p.isReady THEN FALSE
    ELSE IF p.type = "youtube" THEN p.bmuted
    ELSE p.muted

\* VideoPlayer.destroy(): the backend is destroyed or removed, player = null,
\* isReady_ = false; the other fields and the trackTime loops are left
vpDestroy(p) ==
    [p EXCEPT !.isReady = FALSE, !.loading = FALSE, !.pos = 0,
              !.bplaying = FALSE, !.events = <<>>]

\* one run of a trackTime closure whose lastTime is last: the time it passes
\* to callbacks.onSeek (none when the position moved by at most 1 s)
trackTimeSeeks(p, last) ==
    IF p.isReady /\ Abs(p.pos - last) > 1000 THEN <<p.pos>> ELSE <<>>

\* the calls of callbacks.onSeek in one animation frame, in which every
\* scheduled trackTime closure runs once
RECURSIVE frameSeeks(_, _)
frameSeeks(p, loops) ==
    IF loops = <<>> THEN <<>>
    ELSE trackTimeSeeks(p, Head(loops)) \o frameSeeks(p, Tail(loops))

\* the adapter after that frame: each closure has lastTime = currentTime and
\* this.currentTime = currentTime if the player is ready, and requests the
\* next frame only if this.type is still youtube
vpFrame(p) ==
    [p EXCEPT !.loops = IF p.type # "youtube" THEN <<>>
                        ELSE IF p.isReady THEN [i \in DOMAIN @ |-> p.pos]
                        ELSE @,
              !.currentTime = IF p.type = "youtube" /\ p.isReady /\ p.loops # <<>>
                              THEN p.pos ELSE @]

\* a frame would change something
framePending(p) == p.loops # <<>> /\ vpFrame(p) # p

\* VideoPlayer.isPlaying(): this.playing, which the play / pause listeners set
\* (for youtube getPlayerState(), which the player likewise updates when it
\* reports its state change)
isPlaying(p) == p.isReady /\ p.playing

(***************************************************************************)
(* RoomManager.                                                            *)
(***************************************************************************)
\* a call RoomManager made on its videoPlayer
Call(f, t) == [f |-> f, t |-> t]

\* updateRoomState(updates) up to its await import: returns at once for a
\* client that is not host
callUpdateRoomState(host, ts, upd) ==
    IF host THEN ts \cup {Task("updateRoomState", NoUser, 0, upd)} ELSE ts

\* a merge that keeps the time of the record whatever the updates say
staleState(cs, upd, t, c) ==
    [exists    |-> TRUE,
     url       |-> IF "url" \in upd.has THEN upd.url ELSE cs.url,
     time      |-> cs.time,
     playing   |-> IF "playing" \in upd.has THEN upd.playing ELSE cs.playing,
     updatedAt |-> t,
     hostId    |-> c]

\* {...this.currentState, ...updates, updatedAt: Date.now(), hostId: this.userId}
newState(cs, upd, t, c) ==
    [exists    |-> TRUE,
     url       |-> IF "url" \in upd.has THEN upd.url ELSE cs.url,
     time      |-> IF "time" \in upd.has THEN upd.time ELSE cs.time,
     playing   |-> IF "playing" \in upd.has THEN upd.playing ELSE cs.playing,
     updatedAt |-> t,
     hostId    |-> c]

\* a staleness test that lets every record through
neverOld(timeSinceUpdate, force) == FALSE
\* part_000:441: if (timeSinceUpdate > 10000 && !force) return
isOldUpdate(timeSinceUpdate, force) == timeSinceUpdate > ignoreOldMs /\ ~force

\* drift tests that ignore force, or that include the threshold
driftOnly(drift, force) == drift > driftMs
driftAtLeast(drift, force) == drift >= driftMs \/ force
\* part_000:450: if (drift > 0.4 || force)
driftIsSignificant(drift, force) == drift > driftMs \/ force

\* a prediction that stands still while the record is paused
pausedStandsStill(cs, timeSinceUpdate) ==
    IF cs.playing THEN cs.time + timeSinceUpdate ELSE cs.time

\* const remoteTime = this.currentState.time + (timeSinceUpdate / 1000), in ms
remoteTimeOf(cs, timeSinceUpdate) == cs.time + timeSinceUpdate

\* a reconciliation that does not look at isHost
syncSkipsNone(host) == FALSE

\* if (this.isHost || ...) return, the first line of syncToRemoteState
syncSkipsHost(host) == host

\* a reconciliation that calls play() whenever the record says playing
playWhenever(shouldBePlaying, playingNow) == shouldBePlaying

\* if (shouldBePlaying && !isPlaying) this.videoPlayer.play()
shouldPlay(shouldBePlaying, playingNow) == shouldBePlaying /\ ~playingNow

\* else if (!shouldBePlaying && isPlaying) this.videoPlayer.pause()
shouldPause(shouldBePlaying, playingNow) == ~shouldBePlaying /\ playingNow

\* syncToRemoteState(force) of a client whose isHost is host, currentState is
\* cs and videoPlayer is p, at Date.now() = t: whether it passed both returns,
\* the calls it made on the videoPlayer, the videoPlayer afterwards, and the
\* VideoPlayer.seek it left suspended
syncToRemoteState(host, cs, p, t, force) ==
    LET timeSinceUpdate == t - cs.updatedAt
        remoteTime      == remoteTimeOf(cs, timeSinceUpdate)
        localTime       == getCurrentTime(p)
        drift           == Abs(remoteTime - localTime)
        seeks           == driftIsSignificant(drift, force)
        p1              == IF seeks THEN vpSeek(p, remoteTime) ELSE p
        shouldBePlaying == cs.playing
        plays           == shouldPlay(shouldBePlaying, isPlaying(p1))
        pauses          == shouldPause(shouldBePlaying, isPlaying(p1))
        p2              == IF plays THEN vpPlay(p1)
                           ELSE IF pauses THEN vpPause(p1) ELSE p1
    IN  IF syncSkipsHost(host) \/ cs.url = "" \/ ~p.isReady
            \/ isOldUpdate(timeSinceUpdate, force)
        THEN [ran |-> FALSE, calls |-> <<>>, vp |-> p, tasks |-> {}]
        ELSE [ran   |-> TRUE,
              calls |-> (IF seeks THEN <<Call("seek", remoteTime)>> ELSE <<>>)
                        \o (IF plays THEN <<Call("play", 0)>>
                            ELSE IF pauses THEN <<Call("pause", 0)>> ELSE <<>>),
              vp    |-> p2,
              tasks |-> IF seeks /\ seekAwaits(p)
                        THEN {Task("vpSeek", NoUser, remoteTime, NoUpd)} ELSE {}]

\* a reconciliation that returns with the flag it has set
flagLeftSet(ran, flag) == IF ran THEN TRUE ELSE flag
\* isUpdatingFromRemote after syncToRemoteState: set at part_000:443 and reset
\* at part_000:468 when the call passed both returns, untouched otherwise
flagAfterSync(ran, flag) == IF ran THEN FALSE ELSE flag

\* what a handler's syncToRemoteState(force) did, for ev
syncEv(op, c, force, r) ==
    [op |-> op, c |-> c, force |-> force, ran |-> r.ran, calls |-> r.calls]

\* the store calls every attached listener of a path after a write to it
notify(sub, dirty) == [c \in Clients |-> dirty[c] \/ sub[c]]

\* snapshot.val() of rooms/{roomId}/presence as Object.entries lists it: the
\* present entries by ascending userId, or (up == FALSE) by descending userId
RECURSIVE entriesOf(_, _, _)
entriesOf(pres, ids, up) ==
    IF ids = {} THEN <<>>
    ELSE LET u == IF up THEN CHOOSE x \in ids : \A y \in ids : x <= y
                  ELSE CHOOSE x \in ids : \A y \in ids : x >= y
             e == [userId |-> u, name |-> pres[u].name,
                   joinedAt |-> pres[u].joinedAt, lastSeen |-> pres[u].lastSeen]
         IN  <<e>> \o entriesOf(pres, ids \ {u}, up)

presentIds(pres) == {u \in UserIds : pres[u].present}

\* the backend of client c has a ready signal or an event still to deliver
backendBusy(c) == vp[c].loading \/ vp[c].events # <<>>

\* a step of client c is taken once the backends of the other clients have
\* delivered their signals (they are local to those clients, so nothing of
\* what c can observe depends on this order)
othersQuiet(c) == \A d \in Clients \ {c} : ~backendBusy(d)

\* the presence listener of connect(): (snapshot) => this.updatePresence(snapshot.val())
PresenceValue(c, orders) ==
    /\ presSub[c] /\ presDirty[c]
    /\ othersQuiet(c)
    /\ \E up \in orders : updatePresence(c, entriesOf(dbPresence, presentIds(dbPresence), up))
    /\ presDirty' = [presDirty EXCEPT ![c] = FALSE]
    /\ UNCHANGED <<envVars, storeVars, rmVars, subVars, stateDirty, lifeVars, chatVars>>

\* a write that replaces the record, as set() would
setHostFields(state, newHost, t) ==
    [NoState EXCEPT !.exists = TRUE, !.hostId = newHost, !.updatedAt = t]

\* update(roomStateRef, {hostId: newHostId, updatedAt: Date.now()}): the other
\* keys of the record keep their values
updateHostFields(state, newHost, t) ==
    [state EXCEPT !.exists = TRUE, !.hostId = newHost, !.updatedAt = t]

\* updateRoomHost(newHostId) after its await import: update(roomStateRef,
\* {hostId: newHostId, updatedAt: Date.now()}); a null hostId removes the key
UpdateRoomHostResume(c) ==
    \E task \in tasks[c] :
        /\ task.kind = "updateRoomHost"
        /\ othersQuiet(c)
        /\ tasks' = [tasks EXCEPT ![c] = @ \ {task}]
        /\ dbState' = updateHostFields(dbState, task.host, now)
        /\ lastWriter' = c
        /\ stateDirty' = notify(stateSub, stateDirty)
        /\ ev' = [op |-> "updateRoomHost", c |-> c, write |-> dbState']
        /\ UNCHANGED <<envVars, dbPresence, isHost, rmVars, pmVars, subVars, presDirty,
                       lifeVars, chatVars>>

\* RoomManager.loadVideo(url, updateState) up to its await: nothing for a
\* locator validateVideoUrl rejects, else VideoPlayer.loadVideo
loadVideo(p, url, updateState) ==
    IF validated[url].ok
    THEN vpLoadVideo(p, validated[url].type, validated[url].url, updateState)
    ELSE p

\* a role test that makes every client that finds a record a viewer
neverStoredHost(state, c) == FALSE
\* part_000:258: this.isHost = state.hostId === this.userId
isStoredHost(state, c) == state.hostId = c

\* the listener of connectToRoom on rooms/{roomId}/state
RoomStateValue(c) ==
    /\ stateSub[c] /\ stateDirty[c]
    /\ othersQuiet(c)
    /\ stateDirty' = [stateDirty EXCEPT ![c] = FALSE]
    /\ IF ~dbState.exists
       THEN \* becomeHost() runs to its await import
            /\ tasks' = [tasks EXCEPT ![c] = @ \cup {Task("becomeHost", NoUser, 0, NoUpd)}]
            /\ ev' = [op |-> "roomStateValue", c |-> c, force |-> FALSE,
                      ran |-> FALSE, calls |-> <<>>]
            /\ UNCHANGED <<isHost, currentState, isUpdatingFromRemote, vp>>
       ELSE LET host == isStoredHost(dbState, c)
                p1   == IF dbState.url # "" THEN loadVideo(vp[c], dbState.url, FALSE)
                        ELSE vp[c]
                r    == syncToRemoteState(host, dbState, p1, now, FALSE)
            IN  /\ currentState' = [currentState EXCEPT ![c] = dbState]
                /\ isHost' = [isHost EXCEPT ![c] = host]
                /\ vp' = [vp EXCEPT ![c] = r.vp]
                /\ tasks' = [tasks EXCEPT ![c] = @ \cup r.tasks]
                /\ isUpdatingFromRemote' =
                       [isUpdatingFromRemote EXCEPT ![c] = flagAfterSync(r.ran, @)]
                /\ ev' = syncEv("roomStateValue", c, FALSE, r)
    /\ UNCHANGED <<envVars, storeVars, nextTick, pmVars, subVars, presDirty,
                   lifeVars, chatVars>>

\* becomeHost() after its await import
BecomeHostResume(c) ==
    \E task \in tasks[c] :
        /\ task.kind = "becomeHost"
        /\ othersQuiet(c)
        /\ tasks' = [tasks EXCEPT ![c] = @ \ {task}]
        /\ isHost' = [isHost EXCEPT ![c] = TRUE]
        /\ currentState' = [currentState EXCEPT ![c].hostId = c]
        /\ dbState' = [currentState'[c] EXCEPT !.exists = TRUE]
        /\ lastWriter' = c
        /\ stateDirty' = notify(stateSub, stateDirty)
        /\ ev' = [op |-> "becomeHost", c |-> c, write |-> dbState']
        /\ UNCHANGED <<envVars, dbPresence, isUpdatingFromRemote, nextTick, vp,
                       pmVars, subVars, presDirty, lifeVars, chatVars>>

\* updateRoomState(updates) after its await import
UpdateRoomStateResume(c) ==
    \E task \in tasks[c] :
        /\ task.kind = "updateRoomState"
        /\ othersQuiet(c)
        /\ tasks' = [tasks EXCEPT ![c] = @ \ {task}]
        /\ currentState' = [currentState EXCEPT ![c] = newState(@, task.upd, now, c)]
        /\ dbState' = currentState'[c]
        /\ lastWriter' = c
        /\ stateDirty' = notify(stateSub, stateDirty)
        /\ ev' = [op |-> "updateRoomState", c |-> c, write |-> dbState']
        /\ UNCHANGED <<envVars, dbPresence, isHost, isUpdatingFromRemote, nextTick,
                       vp, pmVars, subVars, presDirty, lifeVars, chatVars>>

\* what this.currentState holds once the write of updateRoomState has failed:
\* rolled back to the value before the call, or the value that was attempted
rolledBack(before, attempted) == before

keptState(before, attempted) == attempted

\* updateRoomState(updates) after its await import, when the store rejects the
\* write: this.currentState = newState was assigned before await update(...)
UpdateRoomStateFails(c) ==
    \E task \in tasks[c] :
        /\ task.kind = "updateRoomState"
        /\ othersQuiet(c)
        /\ tasks' = [tasks EXCEPT ![c] = @ \ {task}]
        /\ currentState' = [currentState EXCEPT ![c] =
                                keptState(@, newState(@, task.upd, now, c))]
        /\ ev' = [op |-> "updateRoomStateFails", c |-> c, upd |-> task.upd]
        /\ UNCHANGED <<envVars, storeVars, isHost, isUpdatingFromRemote, nextTick,
                       vp, pmVars, subVars, stateDirty, presDirty, lifeVars, chatVars>>

\* updateVideoProgress(): the value of #seek-slider becomes the progress of the
\* video in percent; the value is kept in the model while a debounced input of
\* the slider is pending, which is when it is read
updateVideoProgress(p, d) ==
    IF ~p.isReady \/ d.at = 0 THEN d
    ELSE [d EXCEPT !.value = IF getDuration(p) # 0
                             THEN (getCurrentTime(p) * 100) \div getDuration(p)
                             ELSE 0]

\* the callback of startSyncInterval: syncToRemoteState(); updateVideoProgress()
SyncTick(c) ==
    /\ nextTick[c] # 0 /\ now >= nextTick[c]
    /\ othersQuiet(c)
    /\ nextTick' = [nextTick EXCEPT ![c] = @ + syncIntervalMs]
    /\ LET r == syncToRemoteState(isHost[c], currentState[c], vp[c], now, FALSE)
       IN  /\ vp' = [vp EXCEPT ![c] = r.vp]
           /\ tasks' = [tasks EXCEPT ![c] = @ \cup r.tasks]
           /\ isUpdatingFromRemote' =
                  [isUpdatingFromRemote EXCEPT ![c] = flagAfterSync(r.ran, @)]
           /\ debounceTimeout' =
                  [debounceTimeout EXCEPT ![c] = updateVideoProgress(r.vp, @)]
           /\ ev' = syncEv("syncTick", c, FALSE, r)
    /\ UNCHANGED <<envVars, storeVars, isHost, currentState, pmVars, subVars,
                   stateDirty, presDirty, destroyed, heartbeatInterval, chatVars>>

\* the click listener of #sync-btn and the 's' key: syncToRemoteState(true)
SyncButton(c) ==
    /\ stateSub[c]
    /\ inputs < MaxInputs
    /\ inputs' = inputs + 1
    /\ LET r == syncToRemoteState(isHost[c], currentState[c], vp[c], now, TRUE)
       IN  /\ vp' = [vp EXCEPT ![c] = r.vp]
           /\ tasks' = [tasks EXCEPT ![c] = @ \cup r.tasks]
           /\ isUpdatingFromRemote' =
                  [isUpdatingFromRemote EXCEPT ![c] = flagAfterSync(r.ran, @)]
           /\ ev' = syncEv("syncButton", c, TRUE, r)
    /\ UNCHANGED <<now, advances, storeVars, isHost, currentState, nextTick, pmVars,
                   subVars, stateDirty, presDirty, lifeVars, chatVars>>

\* VideoPlayer.seek(time) of vimeo after its await: this.currentTime = time
VpSeekResume(c) ==
    \E task \in tasks[c] :
        /\ task.kind = "vpSeek"
        /\ tasks' = [tasks EXCEPT ![c] = @ \ {task}]
        /\ vp' = [vp EXCEPT ![c].currentTime = task.time]
        /\ ev' = [op |-> "vpSeek", c |-> c]
        /\ UNCHANGED <<envVars, storeVars, isHost, currentState,
                       isUpdatingFromRemote, nextTick, pmVars, subVars,
                       stateDirty, presDirty, lifeVars, chatVars>>

\* the backend's ready signal (onReady, ready(), loadedmetadata) with the
\* onReady callback of RoomManager.loadVideo; a backend takes longer than a
\* frame to get ready, so a trackTime closure left from a youtube video has
\* seen the new type and stopped
PlayerReady(c) ==
    /\ vp[c].loading
    /\ vp[c].type # "youtube" => vp[c].loops = <<>>
    /\ vp' = [vp EXCEPT ![c].loading = FALSE, ![c].isReady = TRUE,
                        ![c].duration = VideoLen, ![c].bvolume = vp[c].volume]
    /\ tasks' = [tasks EXCEPT ![c] =
                    callUpdateRoomState(vp[c].cbUpdateState /\ isHost[c], @,
                                        Upd({"url", "time", "playing"}, vp[c].cbUrl, 0, FALSE))]
    /\ ev' = [op |-> "onReady", c |-> c]
    /\ UNCHANGED <<envVars, storeVars, isHost, currentState, isUpdatingFromRemote,
                   nextTick, pmVars, subVars, stateDirty, presDirty,
                   lifeVars, chatVars>>

\* the adapter's listener of a backend event, with the onPlay / onPause /
\* onSeek callback of RoomManager.loadVideo
PlayerEvent(c) ==
    /\ vp[c].events # <<>>
    /\ LET e    == Head(vp[c].events)
           p1   == [vp[c] EXCEPT !.events = Tail(@),
                                 !.playing = IF e = "play" THEN TRUE
                                             ELSE IF e = "pause" THEN FALSE ELSE @]
           upd  == IF e = "play" THEN Upd({"playing"}, "", 0, TRUE)
                   ELSE IF e = "pause" THEN Upd({"playing"}, "", 0, FALSE)
                   ELSE Upd({"time"}, "", vp[c].pos, FALSE)
       IN  /\ vp' = [vp EXCEPT ![c] = p1]
           /\ tasks' = [tasks EXCEPT ![c] =
                  callUpdateRoomState(isHost[c] /\ ~isUpdatingFromRemote[c], @, upd)]
           /\ ev' = [op |-> "playerEvent", c |-> c, event |-> e]
    /\ UNCHANGED <<envVars, storeVars, isHost, currentState, isUpdatingFromRemote,
                   nextTick, pmVars, subVars, stateDirty, presDirty,
                   lifeVars, chatVars>>

\* RoomManager.init from connectToRoom's await import on: the state listener
\* is attached, presenceManager.connect() is started and the sync timer is set
ConnectToRoom(c) ==
    /\ ~stateSub[c]
    /\ othersQuiet(c)
    /\ stateSub' = [stateSub EXCEPT ![c] = TRUE]
    /\ stateDirty' = [stateDirty EXCEPT ![c] = TRUE]
    /\ tasks' = [tasks EXCEPT ![c] = @ \cup {Task("connect", NoUser, 0, NoUpd)}]
    /\ nextTick' = [nextTick EXCEPT ![c] = now + syncIntervalMs]
    /\ ev' = [op |-> "connectToRoom", c |-> c]
    /\ UNCHANGED <<envVars, storeVars, isHost, currentState, isUpdatingFromRemote, vp,
                   pmVars, presSub, presDirty, lifeVars, chatVars>>

\* PresenceManager.connect() after its await import: set(presenceRef,
\* userData), onDisconnect(presenceRef).remove() and the presence listener's
\* attachment (the two awaits between them are not separate steps here: the
\* listener's first snapshot holds the client's own entry either way), then
\* startHeartbeat() with its setInterval (its await import is not a separate
\* step either: what can run in between can as well run before this step)
PresenceConnect(c) ==
    \E task \in tasks[c] :
        /\ task.kind = "connect"
        /\ othersQuiet(c)
        /\ tasks' = [tasks EXCEPT ![c] = @ \ {task}]
        /\ dbPresence' = [dbPresence EXCEPT ![c] =
               [present |-> TRUE, name |-> "n", joinedAt |-> now, lastSeen |-> now]]
        /\ presSub' = [presSub EXCEPT ![c] = TRUE]
        /\ presDirty' = notify(presSub', presDirty)
        /\ heartbeatInterval' = [heartbeatInterval EXCEPT ![c] = now + heartbeatMs]
        /\ ev' = [op |-> "presenceConnect", c |-> c]
        /\ UNCHANGED <<envVars, dbState, lastWriter, isHost, rmVars, pmVars, stateSub,
                       stateDirty, destroyed, debounceTimeout, chatVars>>

\* a client with nothing left to do
idle(c) ==
    /\ tasks[c] = {} /\ vp[c].events = <<>> /\ ~vp[c].loading
    /\ ~stateDirty[c] /\ ~presDirty[c]

\* a user makes a gesture when the room has settled
settled == \A c \in Clients : idle(c)

\* the click listener of #play-pause-btn and the ' ' key, for the host:
\* this.videoPlayer.isPlaying() ? this.pause() : this.play(), up to the await
\* of videoPlayer.play() / videoPlayer.pause()
PlayPauseButton(c) ==
    /\ stateSub[c] /\ isHost[c] /\ settled
    /\ inputs < MaxGestures
    /\ inputs' = inputs + 1
    /\ IF isPlaying(vp[c])
       THEN /\ vp' = [vp EXCEPT ![c] = vpPause(@)]
            /\ tasks' = [tasks EXCEPT ![c] = @ \cup {Task("pause", NoUser, 0, NoUpd)}]
       ELSE /\ vp' = [vp EXCEPT ![c] = vpPlay(@)]
            /\ tasks' = [tasks EXCEPT ![c] = @ \cup {Task("play", NoUser, 0, NoUpd)}]
    /\ ev' = [op |-> "playPauseButton", c |-> c]
    /\ UNCHANGED <<now, advances, storeVars, isHost, currentState, isUpdatingFromRemote,
                   nextTick, pmVars, subVars, stateDirty, presDirty,
                   lifeVars, chatVars>>

\* the 'ArrowRight' key, for the host: this.seek(Math.min(duration,
\* currentTime + 5)), up to the await of videoPlayer.seek(time)
ArrowRightKey(c) ==
    /\ stateSub[c] /\ isHost[c] /\ settled
    /\ inputs < MaxGestures
    /\ inputs' = inputs + 1
    /\ LET t5   == getCurrentTime(vp[c]) + 5000
           time == IF getDuration(vp[c]) < t5 THEN getDuration(vp[c]) ELSE t5
       IN  /\ vp' = [vp EXCEPT ![c] = vpSeek(@, time)]
           /\ tasks' = [tasks EXCEPT ![c] = @ \cup {Task("seek", NoUser, time, NoUpd)}]
    /\ ev' = [op |-> "arrowRightKey", c |-> c]
    /\ UNCHANGED <<now, advances, storeVars, isHost, currentState, isUpdatingFromRemote,
                   nextTick, pmVars, subVars, stateDirty, presDirty,
                   lifeVars, chatVars>>

\* the click listener of #demo-video-btn, for the host: this.loadVideo(demoUrl);
\* a host presses it while it has no video
DemoVideoButton(c) ==
    /\ stateSub[c] /\ isHost[c] /\ settled
    /\ vp[c].type = ""
    /\ vp' = [vp EXCEPT ![c] = loadVideo(@, Mp4Url, TRUE)]
    /\ ev' = [op |-> "demoVideoButton", c |-> c]
    /\ UNCHANGED <<envVars, storeVars, isHost, currentState, isUpdatingFromRemote,
                   nextTick, pmVars, tasks, subVars, stateDirty, presDirty,
                   lifeVars, chatVars>>

\* RoomManager.play() / pause() / seek(time) after the await of the
\* videoPlayer's call (for a seek of vimeo, with the this.currentTime = time
\* that ends VideoPlayer.seek): updateRoomState({...}) up to its await import
GestureResume(c) ==
    \E task \in tasks[c] :
        /\ task.kind \in {"play", "pause", "seek", "seekAwait"}
        /\ othersQuiet(c)
        /\ vp' = IF task.kind = "seekAwait"
                 THEN [vp EXCEPT ![c].currentTime = task.time] ELSE vp
        /\ LET upd == IF task.kind = "play"
                         THEN Upd({"playing", "time"}, "", getCurrentTime(vp'[c]), TRUE)
                      ELSE IF task.kind = "pause"
                         THEN Upd({"playing", "time"}, "", getCurrentTime(vp'[c]), FALSE)
                      ELSE Upd({"playing", "time"}, "", task.time, isPlaying(vp'[c]))
           IN  /\ tasks' = [tasks EXCEPT ![c] =
                               callUpdateRoomState(isHost[c], @ \ {task}, upd)]
               /\ ev' = [op |-> IF task.kind = "seekAwait" THEN "seek" ELSE task.kind,
                         c |-> c, host |-> isHost[c], upd |-> upd]
        /\ UNCHANGED <<envVars, storeVars, isHost, currentState, isUpdatingFromRemote,
                       nextTick, pmVars, subVars, stateDirty, presDirty,
                       lifeVars, chatVars>>

(***************************************************************************)
(* The listeners of setupEventListeners as a whole, for a host and for a   *)
(* viewer, whatever the videoPlayer is doing (SpecControls).               *)
(***************************************************************************)
\* a listener that tests nothing before it acts
everyone(host) == TRUE

\* the test `if (this.isHost)` of the listeners of the playback controls and
\* `if (!this.isHost) return` of play(), pause(), seek(), loadVideoFromInput()
hostOnly(host) == host

\* RoomManager.play() up to its await of videoPlayer.play(): the videoPlayer
\* and the suspended functions afterwards
rmPlay(host, p, ts) ==
    IF ~hostOnly(host) THEN [vp |-> p, tasks |-> ts]
    ELSE [vp |-> vpPlay(p), tasks |-> ts \cup {Task("play", NoUser, 0, NoUpd)}]

\* RoomManager.pause() up to its await of videoPlayer.pause()
rmPause(host, p, ts) ==
    IF ~hostOnly(host) THEN [vp |-> p, tasks |-> ts]
    ELSE [vp |-> vpPause(p), tasks |-> ts \cup {Task("pause", NoUser, 0, NoUpd)}]

\* RoomManager.seek(time) up to its await of videoPlayer.seek(time), or (vimeo)
\* up to the await of setCurrentTime(time) inside it
rmSeek(host, p, ts, time) ==
    IF ~hostOnly(host) THEN [vp |-> p, tasks |-> ts]
    ELSE [vp    |-> vpSeek(p, time),
          tasks |-> ts \cup {Task(IF seekAwaits(p) THEN "seekAwait" ELSE "seek",
                                  NoUser, time, NoUpd)}]

\* a listener of the user's gesture ran on client c and left r.vp and r.tasks;
\* e records which listener and with what input
gesture(c, e, r) ==
    /\ inputs < MaxCalls
    /\ inputs' = inputs + 1
    /\ vp' = [vp EXCEPT ![c] = r.vp]
    /\ tasks' = [tasks EXCEPT ![c] = r.tasks]
    /\ ev' = e
    /\ UNCHANGED <<now, advances, storeVars, isHost, currentState, isUpdatingFromRemote,
                   nextTick, pmVars, subVars, stateDirty, presDirty,
                   lifeVars, chatVars>>

\* the click listener of #play-pause-btn and the ' ' key:
\* if (this.isHost) { this.videoPlayer.isPlaying() ? this.pause() : this.play() }
PlayPauseClick(c) ==
    /\ stateSub[c]
    /\ gesture(c, [op |-> "playPauseClick", c |-> c],
               IF ~hostOnly(isHost[c]) THEN [vp |-> vp[c], tasks |-> tasks[c]]
               ELSE IF isPlaying(vp[c]) THEN rmPause(isHost[c], vp[c], tasks[c])
               ELSE rmPlay(isHost[c], vp[c], tasks[c]))

\* the 'ArrowLeft' and 'ArrowRight' keys: seek(Math.max(0, currentTime - 5)),
\* seek(Math.min(duration, currentTime + 5)), for the host
ArrowKey(c) ==
    /\ stateSub[c]
    /\ \E right \in BOOLEAN :
        LET t == getCurrentTime(vp[c])
            d == getDuration(vp[c])
            time == IF right THEN (IF d < t + 5000 THEN d ELSE t + 5000)
                    ELSE (IF t - 5000 < 0 THEN 0 ELSE t - 5000)
        IN  gesture(c, [op |-> "arrowKey", c |-> c],
                    IF ~hostOnly(isHost[c]) THEN [vp |-> vp[c], tasks |-> tasks[c]]
                    ELSE rmSeek(isHost[c], vp[c], tasks[c], time))

\* positions of #seek-slider, in percent
SliderValues == {50}

\* the values of #seek-slider the user drags it through, and how many input
\* events the slider delivers
SlideValues == {25, 50}
MaxSlides == 2

\* the (debounced) input listener of #seek-slider:
\* if (this.isHost) this.seek((e.target.value / 100) * getDuration())
SeekSliderInput(c) ==
    /\ stateSub[c]
    /\ \E value \in SliderValues :
        gesture(c, [op |-> "seekSliderInput", c |-> c],
                IF ~hostOnly(isHost[c]) THEN [vp |-> vp[c], tasks |-> tasks[c]]
                ELSE rmSeek(isHost[c], vp[c], tasks[c], (value * getDuration(vp[c])) \div 100))

\* the wait of the debounced listener of #seek-slider
debounceMs == 300

\* debounce(func, 300) called by an input event of #seek-slider:
\* clearTimeout(timeout); timeout = setTimeout(later, wait)
SliderInput(c) ==
    /\ stateSub[c]
    /\ inputs < MaxSlides
    /\ inputs' = inputs + 1
    /\ \E value \in SlideValues :
          /\ debounceTimeout' = [debounceTimeout EXCEPT ![c] =
                                    [at |-> now + debounceMs, value |-> value,
                                     input |-> value]]
          /\ ev' = [op |-> "sliderInput", c |-> c, value |-> value]
    /\ UNCHANGED <<now, advances, storeVars, isHost, rmVars, pmVars, tasks, subVars,
                   stateDirty, presDirty, destroyed, heartbeatInterval, chatVars>>

\* the timeout of debounce fires: later() runs the listener with the event of
\* the last call, and the listener reads isHost, e.target.value and
\* getDuration() now
DebounceFires(c) ==
    /\ debounceTimeout[c].at # 0 /\ now >= debounceTimeout[c].at
    /\ LET d    == debounceTimeout[c]
           time == (d.value * getDuration(vp[c])) \div 100
           r    == IF ~hostOnly(isHost[c]) THEN [vp |-> vp[c], tasks |-> tasks[c]]
                   ELSE rmSeek(isHost[c], vp[c], tasks[c], time)
       IN  /\ vp' = [vp EXCEPT ![c] = r.vp]
           /\ tasks' = [tasks EXCEPT ![c] = r.tasks]
           /\ ev' = [op |-> "debounceFires", c |-> c, input |-> d.input,
                     at |-> d.at, time |-> time]
    /\ debounceTimeout' = [debounceTimeout EXCEPT ![c] = NoTimeout]
    /\ UNCHANGED <<envVars, storeVars, isHost, currentState, isUpdatingFromRemote,
                   nextTick, pmVars, subVars, stateDirty, presDirty, destroyed,
                   heartbeatInterval, chatVars>>

\* what the user has typed into #video-url-input
LoadUrls == {"", YouTubeUrl, VimeoUrl, Mp4Url, BadUrl, NoIdUrl}

\* RoomManager.loadVideoFromInput(), the listener of #load-video-btn and of
\* Enter in #video-url-input
loadVideoFromInput(c, url) ==
    gesture(c, [op |-> "loadVideoFromInput", c |-> c, url |-> url],
            IF ~hostOnly(isHost[c]) \/ url = "" THEN [vp |-> vp[c], tasks |-> tasks[c]]
            ELSE [vp |-> loadVideo(vp[c], url, TRUE), tasks |-> tasks[c]])

LoadVideoFromInput(c) ==
    /\ stateSub[c]
    /\ \E url \in LoadUrls : loadVideoFromInput(c, url)

\* the same listener, with any locator of the model typed into the field
LocatorInput(c) ==
    /\ stateSub[c]
    /\ \E url \in Locators : loadVideoFromInput(c, url)

\* the click listener of #demo-video-btn
DemoVideoClick(c) ==
    /\ stateSub[c]
    /\ gesture(c, [op |-> "demoVideoClick", c |-> c],
               IF ~hostOnly(isHost[c]) THEN [vp |-> vp[c], tasks |-> tasks[c]]
               ELSE [vp |-> loadVideo(vp[c], Mp4Url, TRUE), tasks |-> tasks[c]])

\* the click listener of #mute-btn: this.videoPlayer.toggleMute()
MuteClick(c) ==
    /\ stateSub[c]
    /\ gesture(c, [op |-> "muteClick", c |-> c],
               [vp    |-> vpToggleMute(vp[c]),
                tasks |-> IF toggleMuteAwaits(vp[c])
                          THEN tasks[c] \cup {Task("toggleMute", NoUser, 0, NoUpd)}
                          ELSE tasks[c]])

\* positions of #volume-slider, in percent
VolumeValues == {0, 80}

\* the input listener of #volume-slider: setVolume(e.target.value / 100)
VolumeInput(c) ==
    /\ stateSub[c]
    /\ \E value \in VolumeValues :
        gesture(c, [op |-> "volumeInput", c |-> c], [vp |-> vpSetVolume(vp[c], value), tasks |-> tasks[c]])

\* VideoPlayer.toggleMute() of vimeo after await this.player.getVolume()
ToggleMuteResume(c) ==
    \E task \in tasks[c] :
        /\ task.kind = "toggleMute"
        /\ tasks' = [tasks EXCEPT ![c] = @ \ {task}]
        /\ vp' = [vp EXCEPT ![c] = vpToggleMuteVimeo(@)]
        /\ ev' = [op |-> "toggleMute", c |-> c]
        /\ UNCHANGED <<envVars, storeVars, isHost, currentState,
                       isUpdatingFromRemote, nextTick, pmVars, subVars,
                       stateDirty, presDirty, lifeVars, chatVars>>

\* RoomManager.destroy(): clearInterval(this.syncInterval),
\* videoPlayer.destroy(), chatManager.destroy() (stopTyping() up to its await
\* import, clearTimeout(this.typingTimeout)) and presenceManager.destroy()
\* (clearInterval(this.heartbeatInterval), removePresence() up to its await
\* import)
Destroy(c) ==
    /\ stateSub[c]
    /\ inputs < MaxCalls
    /\ inputs' = inputs + 1
    /\ destroyed' = [destroyed EXCEPT ![c] = TRUE]
    /\ nextTick' = [nextTick EXCEPT ![c] = 0]
    /\ heartbeatInterval' = [heartbeatInterval EXCEPT ![c] = 0]
    /\ typingTimeout' = [typingTimeout EXCEPT ![c] = 0]
    /\ vp' = [vp EXCEPT ![c] = vpDestroy(@)]
    /\ tasks' = [tasks EXCEPT ![c] = @ \cup {Task("stopTyping", NoUser, 0, NoUpd),
                                             Task("removePresence", NoUser, 0, NoUpd)}]
    /\ ev' = [op |-> "destroy", c |-> c]
    /\ UNCHANGED <<now, advances, storeVars, isHost, currentState, isUpdatingFromRemote,
                   pmVars, subVars, stateDirty, presDirty, debounceTimeout, isTyping,
                   dbTyping, rateLimiterCalls, sendLog,
                   dbChat>>

\* PresenceManager.removePresence() after its await import: remove(presenceRef)
RemovePresenceResume(c) ==
    \E task \in tasks[c] :
        /\ task.kind = "removePresence"
        /\ tasks' = [tasks EXCEPT ![c] = @ \ {task}]
        /\ dbPresence' = [dbPresence EXCEPT ![c] = NoEntry]
        /\ presDirty' = IF dbPresence[c].present THEN notify(presSub, presDirty)
                        ELSE presDirty
        /\ ev' = [op |-> "removePresence", c |-> c]
        /\ UNCHANGED <<envVars, dbState, lastWriter, isHost, rmVars, pmVars, subVars,
                       stateDirty, lifeVars, chatVars>>

\* the callback of the setInterval of startHeartbeat:
\* update(presenceRef, {lastSeen: serverTimestamp()}), which creates the entry,
\* with lastSeen only, when the store holds none
Heartbeat(c) ==
    /\ heartbeatInterval[c] # 0 /\ now >= heartbeatInterval[c]
    /\ heartbeatInterval' = [heartbeatInterval EXCEPT ![c] = @ + heartbeatMs]
    /\ dbPresence' = [dbPresence EXCEPT ![c] =
           IF @.present THEN [@ EXCEPT !.lastSeen = now]
           ELSE [present |-> TRUE, name |-> "", joinedAt |-> 0, lastSeen |-> now]]
    /\ presDirty' = notify(presSub, presDirty)
    /\ ev' = [op |-> "heartbeat", c |-> c, created |-> ~dbPresence[c].present]
    /\ UNCHANGED <<envVars, dbState, lastWriter, isHost, rmVars, pmVars, tasks, subVars,
                   stateDirty, destroyed, debounceTimeout, chatVars>>

\* the client's connection to the store is lost and comes back while its page
\* stays open: the store runs onDisconnect(presenceRef).remove()
StoreDisconnect(c) ==
    /\ presSub[c] /\ dbPresence[c].present
    /\ inputs < MaxCalls
    /\ inputs' = inputs + 1
    /\ dbPresence' = [dbPresence EXCEPT ![c] = NoEntry]
    /\ presDirty' = notify(presSub, presDirty)
    /\ ev' = [op |-> "storeDisconnect", c |-> c]
    /\ UNCHANGED <<now, advances, dbState, lastWriter, isHost, rmVars, pmVars, tasks,
                   subVars, stateDirty, lifeVars, chatVars>>

\* ChatManager.handleTyping(), called by the input listeners of the chat
\* inputs: startTyping() up to its await import unless isTyping, and the
\* typing timeout is set anew
HandleTyping(c) ==
    /\ stateSub[c] /\ ~destroyed[c]
    /\ inputs < MaxCalls
    /\ inputs' = inputs + 1
    /\ tasks' = [tasks EXCEPT ![c] =
           IF isTyping[c] THEN @ ELSE @ \cup {Task("startTyping", NoUser, 0, NoUpd)}]
    /\ typingTimeout' = [typingTimeout EXCEPT ![c] = now + typingMs]
    /\ ev' = [op |-> "handleTyping", c |-> c]
    /\ UNCHANGED <<now, advances, storeVars, isHost, rmVars, pmVars, subVars,
                   stateDirty, presDirty, lifeVars, isTyping, dbTyping,
                   rateLimiterCalls, sendLog,
                   dbChat>>

\* ChatManager.startTyping() after its await import: isTyping = true and
\* set(typingRef, {name, timestamp})
StartTypingResume(c) ==
    \E task \in tasks[c] :
        /\ task.kind = "startTyping"
        /\ tasks' = [tasks EXCEPT ![c] = @ \ {task}]
        /\ isTyping' = [isTyping EXCEPT ![c] = TRUE]
        /\ dbTyping' = [dbTyping EXCEPT ![c] = TRUE]
        /\ ev' = [op |-> "startTyping", c |-> c]
        /\ UNCHANGED <<envVars, storeVars, isHost, rmVars, pmVars, subVars, stateDirty,
                       presDirty, lifeVars, typingTimeout, rateLimiterCalls, sendLog,
                   dbChat>>

\* the callback of the typing timeout: stopTyping() up to its await import
TypingTimeout(c) ==
    /\ typingTimeout[c] # 0 /\ now >= typingTimeout[c]
    /\ typingTimeout' = [typingTimeout EXCEPT ![c] = 0]
    /\ tasks' = [tasks EXCEPT ![c] = @ \cup {Task("stopTyping", NoUser, 0, NoUpd)}]
    /\ ev' = [op |-> "typingTimeout", c |-> c]
    /\ UNCHANGED <<envVars, storeVars, isHost, rmVars, pmVars, subVars, stateDirty,
                   presDirty, lifeVars, isTyping, dbTyping, rateLimiterCalls, sendLog,
                   dbChat>>

\* ChatManager.stopTyping() after its await import: isTyping = false,
\* clearTimeout(this.typingTimeout) and remove(typingRef)
StopTypingResume(c) ==
    \E task \in tasks[c] :
        /\ task.kind = "stopTyping"
        /\ tasks' = [tasks EXCEPT ![c] = @ \ {task}]
        /\ isTyping' = [isTyping EXCEPT ![c] = FALSE]
        /\ typingTimeout' = [typingTimeout EXCEPT ![c] = 0]
        /\ dbTyping' = [dbTyping EXCEPT ![c] = FALSE]
        /\ ev' = [op |-> "stopTyping", c |-> c]
        /\ UNCHANGED <<envVars, storeVars, isHost, rmVars, pmVars, subVars, stateDirty,
                       presDirty, lifeVars, rateLimiterCalls, sendLog,
                   dbChat>>

\* new RateLimiter(1, 800)
maxCalls == 1
timeWindow == 800
\* the longest message sendMessage accepts, in characters
maxTextLen == 500

\* the length of the text given to sendMessage, after trim()
TextLens == {0, 2, 501}

\* a limiter that lets every call pass
alwaysCall(calls, t) == [ok |-> TRUE, calls |-> Append(calls, t)]

\* RateLimiter.canMakeCall() at Date.now() = t: the calls younger than
\* timeWindow are kept, and the call is recorded if fewer than maxCalls remain
canMakeCall(calls, t) ==
    LET kept == SelectSeq(calls, LAMBDA call : t - call < timeWindow)
    IN  IF Len(kept) < maxCalls
        THEN [ok |-> TRUE, calls |-> Append(kept, t)]
        ELSE [ok |-> FALSE, calls |-> kept]

\* ChatManager.sendMessage(text) up to its await import, for a text of len
\* characters after trim()
SendMessage(c) ==
    /\ stateSub[c]
    /\ inputs < MaxSends
    /\ inputs' = inputs + 1
    /\ \E len \in TextLens :
          LET r == canMakeCall(rateLimiterCalls[c], now)
          IN  IF len = 0 \/ len > maxTextLen
              THEN /\ UNCHANGED <<tasks, rateLimiterCalls, sendLog>>
                   /\ ev' = [op |-> "sendMessage", c |-> c, len |-> len,
                             outcome |-> "invalid"]
              ELSE /\ rateLimiterCalls' = [rateLimiterCalls EXCEPT ![c] = r.calls]
                   /\ sendLog' = [sendLog EXCEPT ![c] =
                          Append(@, [at |-> now, accepted |-> r.ok])]
                   /\ tasks' = [tasks EXCEPT ![c] =
                          IF r.ok THEN @ \cup {Task("sendMessage", NoUser, len, NoUpd)}
                          ELSE @]
                   /\ ev' = [op |-> "sendMessage", c |-> c, len |-> len,
                             outcome |-> IF r.ok THEN "accepted" ELSE "limited"]
    /\ UNCHANGED <<now, advances, storeVars, isHost, rmVars, pmVars, subVars,
                   stateDirty, presDirty, lifeVars, typingTimeout, isTyping,
                   dbTyping, dbChat>>

\* sendMessage after its await import: push(messagesRef, message) and, when
\* the push succeeded, stopTyping() up to its await import
SendMessageResume(c) ==
    \E task \in tasks[c], pushed \in BOOLEAN :
        /\ task.kind = "sendMessage"
        /\ dbChat' = IF pushed
                     THEN Append(dbChat, [userId |-> c, len |-> task.time,
                                          timestamp |-> now])
                     ELSE dbChat
        /\ tasks' = [tasks EXCEPT ![c] =
               IF pushed THEN (@ \ {task}) \cup {Task("stopTyping", NoUser, 0, NoUpd)}
               ELSE @ \ {task}]
        /\ ev' = [op |-> "push", c |-> c, pushed |-> pushed]
        /\ UNCHANGED <<envVars, storeVars, isHost, rmVars, pmVars, subVars, stateDirty,
                       presDirty, lifeVars, typingTimeout, isTyping, dbTyping,
                       rateLimiterCalls, sendLog>>

\* an animation frame: every scheduled trackTime closure of startTimeTracking
\* runs once, with the onSeek callback of RoomManager.loadVideo
TrackFrame(c) ==
    /\ framePending(vp[c])
    /\ LET seeks == IF vp[c].type = "youtube" THEN frameSeeks(vp[c], vp[c].loops)
                    ELSE <<>>
       IN  /\ vp' = [vp EXCEPT ![c] = vpFrame(@)]
           /\ tasks' = [tasks EXCEPT ![c] =
                  IF seeks = <<>> THEN @
                  ELSE callUpdateRoomState(isHost[c] /\ ~isUpdatingFromRemote[c], @,
                                           Upd({"time"}, "", vp[c].pos, FALSE))]
           /\ ev' = [op |-> "trackFrame", c |-> c, onSeek |-> seeks]
    /\ UNCHANGED <<envVars, storeVars, isHost, currentState, isUpdatingFromRemote,
                   nextTick, pmVars, subVars, stateDirty, presDirty,
                   lifeVars, chatVars>>

\* the backend fails to initialize (onError, the error event): the promise of
\* VideoPlayer.loadVideo is rejected and RoomManager.loadVideo shows a toast
PlayerError(c) ==
    /\ vp[c].loading
    /\ vp' = [vp EXCEPT ![c].loading = FALSE]
    /\ ev' = [op |-> "playerError", c |-> c]
    /\ UNCHANGED <<envVars, storeVars, isHost, currentState, isUpdatingFromRemote,
                   nextTick, pmVars, tasks, subVars, stateDirty, presDirty,
                   lifeVars, chatVars>>

(***************************************************************************)
(* Time.                                                                   *)
(***************************************************************************)
\* how long before the next timer the clock may stop, in ms
Leads == {0, 400, 401, 3000}

activeTicks ==
    {t \in UNION {{nextTick[c], heartbeatInterval[c], typingTimeout[c],
                   debounceTimeout[c].at} : c \in Clients} : t # 0}

\* the instants the clock may step to: a lead before the next timer (a timer
\* fires before the clock passes it), or a lead from now when no timer runs
nextInstants ==
    IF activeTicks = {}
    THEN {now + d : d \in Leads \ {0}}
    ELSE {t \in {nt - d : nt \in activeTicks, d \in Leads} :
             t > now /\ \A nt \in activeTicks : t <= nt}

\* a playing backend advances with the clock and stops at the end of the video
playFor(p, d) ==
    IF ~p.bplaying THEN p
    ELSE IF p.pos + d >= VideoLen
         THEN [p EXCEPT !.pos = VideoLen, !.bplaying = FALSE,
                        !.events = Append(@, "pause")]
         ELSE [p EXCEPT !.pos = @ + d]

\* the clock steps while no async function is suspended, no backend event is
\* queued, no listener is still to be called and no animation frame is due:
\* those take no time that the model's clock measures.  The frames that run
\* while the clock steps see the position move by less than 1 s each.
clockSteps(instants) ==
    /\ \A c \in Clients : /\ tasks[c] = {} /\ vp[c].events = <<>>
                          /\ ~stateDirty[c] /\ ~presDirty[c]
                          /\ ~framePending(vp[c])
    /\ \E t \in instants :
          /\ now' = t
          /\ vp' = [c \in Clients |-> vpFrame(playFor(vp[c], t - now))]
    /\ advances' = advances + 1
    /\ ev' = [op |-> "advance"]
    /\ UNCHANGED <<inputs, storeVars, isHost, currentState, isUpdatingFromRemote, nextTick,
                   pmVars, tasks, subVars, stateDirty, presDirty, lifeVars, chatVars>>

\* the clock steps to an instant before or at the next timer
Advance(limit) ==
    /\ advances < limit
    /\ clockSteps(nextInstants)

\* the clock steps to the next timer
AdvanceToTimer(limit) ==
    /\ advances < limit
    /\ activeTicks # {}
    /\ clockSteps({t \in activeTicks : t > now /\ \A nt \in activeTicks : t <= nt})

(***************************************************************************)
(* SpecPresence: one PresenceManager, connected and listening, against a   *)
(* presence set that other users change arbitrarily.                       *)
(***************************************************************************)
\* joinedAt values other users write (Date.now() of their connect)
JoinedAts == {StartTime - 300, StartTime - 200, StartTime - 100}
\* how long ago an entry's lastSeen was refreshed
Ages == {34999, 35000, 60001}

PresenceEntries ==
    {NoEntry} \cup
    {[present |-> TRUE, name |-> "n", joinedAt |-> j, lastSeen |-> now - a] :
        j \in JoinedAts, a \in Ages}

InitCommon ==
    /\ now = StartTime
    /\ advances = 0
    /\ inputs = 0
    /\ currentState = [c \in Clients |-> NoState]
    /\ isUpdatingFromRemote = [c \in Clients |-> FALSE]
    /\ vp = [c \in Clients |-> NoPlayer]
    /\ dbPresence = [u \in UserIds |-> NoEntry]
    /\ lastWriter = NoUser
    /\ isHost = [c \in Clients |-> FALSE]
    /\ users = [c \in Clients |-> <<>>]
    /\ hostId = [c \in Clients |-> NoUser]
    /\ viewersCount = [c \in Clients |-> 0]
    /\ tasks = [c \in Clients |-> {}]
    /\ presDirty = [c \in Clients |-> FALSE]
    /\ destroyed = [c \in Clients |-> FALSE]
    /\ heartbeatInterval = [c \in Clients |-> 0]
    /\ debounceTimeout = [c \in Clients |-> NoTimeout]
    /\ typingTimeout = [c \in Clients |-> 0]
    /\ isTyping = [c \in Clients |-> FALSE]
    /\ dbTyping = [c \in Clients |-> FALSE]
    /\ rateLimiterCalls = [c \in Clients |-> <<>>]
    /\ sendLog = [c \in Clients |-> <<>>]
    /\ dbChat = <<>>
    /\ ev = [op |-> "init"]

PresenceInit ==
    /\ InitCommon
    /\ dbState = NoState
    /\ stateDirty = [c \in Clients |-> FALSE]
    /\ nextTick = [c \in Clients |-> 0]
    /\ stateSub = [c \in Clients |-> FALSE]
    /\ presSub = [c \in Clients |-> c = 1]

\* another user's entry is written, refreshed or removed
EnvPresence ==
    /\ \A c \in Clients : ~presDirty[c] /\ tasks[c] = {}
    /\ \E u \in UserIds, e \in PresenceEntries :
          /\ e # dbPresence[u]
          /\ dbPresence' = [dbPresence EXCEPT ![u] = e]
    /\ presDirty' = notify(presSub, presDirty)
    /\ ev' = [op |-> "env"]
    /\ UNCHANGED <<envVars, dbState, lastWriter, isHost, rmVars, pmVars, tasks, subVars,
                   stateDirty, lifeVars, chatVars>>

PresenceNext ==
    \/ EnvPresence
    \/ \E c \in Clients : PresenceValue(c, BOOLEAN)
    \/ \E c \in Clients : UpdateRoomHostResume(c)

SpecPresence == PresenceInit /\ [][PresenceNext]_vars

(***************************************************************************)
(* SpecSync: one client that joins a room another user (the host, user 2)  *)
(* has created: its state listener is attached and about to be called with *)
(* the record, and its sync timer runs.                                    *)
(***************************************************************************)
SyncUrls == {YouTubeUrl, VimeoUrl, Mp4Url}
\* playback positions the host writes, in ms
HostTimes == {0, 100000, 199000}
\* how long before the client's start the host wrote the record the room holds
JoinAges == {5000, 5001}

\* the record of the room when the client joins: without a video yet (as
\* becomeHost wrote it), or with one at 100 s
JoinRecords ==
    {[exists |-> TRUE, url |-> "", time |-> 0, playing |-> FALSE,
      updatedAt |-> StartTime - a, hostId |-> 2] : a \in JoinAges}
    \cup
    {[exists |-> TRUE, url |-> url, time |-> 100000, playing |-> playing,
      updatedAt |-> StartTime - a, hostId |-> 2] :
        url \in SyncUrls, playing \in BOOLEAN, a \in JoinAges}

SyncInit ==
    /\ InitCommon
    /\ dbState \in JoinRecords
    /\ stateDirty = [c \in Clients |-> c = 1]
    /\ stateSub = [c \in Clients |-> c = 1]
    /\ presSub = [c \in Clients |-> FALSE]
    /\ nextTick = [c \in Clients |-> IF c = 1 THEN StartTime + syncIntervalMs ELSE 0]

\* the host writes the record (the video of a room is loaded once); the client
\* has handled the record before
EnvHostWrite ==
    /\ inputs < MaxInputs
    /\ inputs' = inputs + 1
    /\ \A c \in Clients : ~stateDirty[c] /\ tasks[c] = {} /\ vp[c].events = <<>>
    /\ \E url \in SyncUrls, time \in HostTimes, playing \in BOOLEAN :
          /\ dbState.url # "" => url = dbState.url
          /\ dbState' = [exists |-> TRUE, url |-> url, time |-> time,
                         playing |-> playing, updatedAt |-> now, hostId |-> 2]
    /\ lastWriter' = 2
    /\ stateDirty' = notify(stateSub, stateDirty)
    /\ ev' = [op |-> "env"]
    /\ UNCHANGED <<now, advances, dbPresence, isHost, rmVars, pmVars, tasks, subVars,
                   presDirty, lifeVars, chatVars>>

SyncNext ==
    \/ EnvHostWrite
    \/ Advance(MaxAdvances)
    \/ \E c \in Clients : RoomStateValue(c)
    \/ \E c \in Clients : SyncTick(c)
    \/ \E c \in Clients : SyncButton(c)
    \/ \E c \in Clients : VpSeekResume(c)
    \/ \E c \in Clients : PlayerReady(c)
    \/ \E c \in Clients : PlayerEvent(c)
    \/ \E c \in Clients : TrackFrame(c)

SpecSync == SyncInit /\ [][SyncNext]_vars

(***************************************************************************)
(* SpecControls: one client that has opened an existing room, as its host  *)
(* (the record names it) or as a viewer, and whose user works the controls *)
(* whatever the videoPlayer is doing.                                      *)
(***************************************************************************)
\* the record of the room when the client opens it
ControlRecords ==
    {[exists |-> TRUE, url |-> url, time |-> 0, playing |-> FALSE,
      updatedAt |-> StartTime - syncIntervalMs, hostId |-> h] :
        url \in {"", YouTubeUrl}, h \in {1, 2}}

ControlsInit ==
    /\ InitCommon
    /\ dbState \in ControlRecords
    /\ stateDirty = [c \in Clients |-> c = 1]
    /\ stateSub = [c \in Clients |-> c = 1]
    /\ presSub = [c \in Clients |-> FALSE]
    /\ nextTick = [c \in Clients |-> 0]

ControlsNext ==
    \/ \E c \in Clients : RoomStateValue(c)
    \/ \E c \in Clients : PlayPauseClick(c)
    \/ \E c \in Clients : ArrowKey(c)
    \/ \E c \in Clients : SeekSliderInput(c)
    \/ \E c \in Clients : LoadVideoFromInput(c)
    \/ \E c \in Clients : DemoVideoClick(c)
    \/ \E c \in Clients : MuteClick(c)
    \/ \E c \in Clients : VolumeInput(c)
    \/ \E c \in Clients : Destroy(c)
    \/ \E c \in Clients : GestureResume(c)
    \/ \E c \in Clients : UpdateRoomStateResume(c)
    \/ \E c \in Clients : ToggleMuteResume(c)
    \/ \E c \in Clients : RemovePresenceResume(c)
    \/ \E c \in Clients : StopTypingResume(c)
    \/ \E c \in Clients : PlayerReady(c)
    \/ \E c \in Clients : PlayerError(c)
    \/ \E c \in Clients : PlayerEvent(c)
    \/ \E c \in Clients : TrackFrame(c)

SpecControls == ControlsInit /\ [][ControlsNext]_vars

(***************************************************************************)
(* SpecLocator: the host types locators into #video-url-input and loads    *)
(* them.                                                                   *)
(***************************************************************************)
LocatorInit ==
    /\ ControlsInit
    /\ dbState.hostId = 1 /\ dbState.url = ""

LocatorNext ==
    \/ RoomStateValue(1)
    \/ LocatorInput(1)
    \/ UpdateRoomStateResume(1)
    \/ UpdateRoomStateFails(1)
    \/ PlayerReady(1)
    \/ PlayerError(1)

SpecLocator == LocatorInit /\ [][LocatorNext]_vars

(***************************************************************************)
(* SpecDebounce: the host of a room with a video drags the seek slider     *)
(* while the sync interval runs.                                           *)
(***************************************************************************)
\* how long after an input event the next one may come
SlideLeads == {100}

\* when the sync interval first fires after the room was opened
FirstTicks == {200, syncIntervalMs}

DebounceRecords ==
    {[exists |-> TRUE, url |-> url, time |-> 0, playing |-> FALSE,
      updatedAt |-> StartTime - syncIntervalMs, hostId |-> 1] :
        url \in {YouTubeUrl, Mp4Url}}

DebounceInit ==
    /\ InitCommon
    /\ dbState \in DebounceRecords
    /\ stateDirty = [c \in Clients |-> c = 1]
    /\ stateSub = [c \in Clients |-> c = 1]
    /\ presSub = [c \in Clients |-> FALSE]
    /\ \E d \in FirstTicks :
          nextTick = [c \in Clients |-> IF c = 1 THEN StartTime + d ELSE 0]

\* the clock steps to the next timer or, within a burst of input events (the
\* debounced listener is pending), to the next input event
AdvanceSlide(limit) ==
    /\ advances < limit
    /\ LET burst == IF \E c \in Clients : debounceTimeout[c].at # 0
                    THEN {now + d : d \in SlideLeads} ELSE {}
       IN  clockSteps({t \in burst \cup activeTicks :
                         t > now /\ \A nt \in activeTicks : t <= nt})

DebounceNext ==
    \/ AdvanceSlide(MaxTicks)
    \/ RoomStateValue(1)
    \/ PlayerReady(1)
    \/ SliderInput(1)
    \/ DebounceFires(1)
    \/ SyncTick(1)
    \/ GestureResume(1)
    \/ UpdateRoomStateResume(1)
    \/ PlayerEvent(1)
    \/ TrackFrame(1)

SpecDebounce == DebounceInit /\ [][DebounceNext]_vars

(***************************************************************************)
(* SpecHandover: a viewer opens a room whose host (user 2) has left its     *)
(* presence; the viewer reconciles with the sync button and its presence   *)
(* listener elects it.  No user acts on the playback controls, so every    *)
(* event of the backend comes from a call of syncToRemoteState.            *)
(***************************************************************************)
HandoverInit ==
    /\ InitCommon
    /\ dbState \in {r \in JoinRecords : r.url # ""}
    /\ stateDirty = [c \in Clients |-> FALSE]
    /\ stateSub = [c \in Clients |-> FALSE]
    /\ presSub = [c \in Clients |-> FALSE]
    /\ nextTick = [c \in Clients |-> 0]

HandoverNext ==
    \/ ConnectToRoom(1)
    \/ PresenceConnect(1)
    \/ PresenceValue(1, {TRUE})
    \/ UpdateRoomHostResume(1)
    \/ RoomStateValue(1)
    \/ PlayerReady(1)
    \/ AdvanceToTimer(MaxSteps)
    \/ SyncTick(1)
    \/ SyncButton(1)
    \/ VpSeekResume(1)
    \/ PlayerEvent(1)
    \/ TrackFrame(1)
    \/ UpdateRoomStateResume(1)

SpecHandover == HandoverInit /\ [][HandoverNext]_vars

(***************************************************************************)
(* SpecChat: the users of clients 1 and 2 type and send chat messages.      *)
(***************************************************************************)
\* how long after a call of sendMessage the next one may come
ChatLeads == {400, 799, 800}

ChatInit ==
    /\ InitCommon
    /\ dbState = NoState
    /\ stateDirty = [c \in Clients |-> FALSE]
    /\ stateSub = [c \in Clients |-> TRUE]
    /\ presSub = [c \in Clients |-> FALSE]
    /\ nextTick = [c \in Clients |-> 0]

\* the clock steps to the next call of the user or to the next timer
AdvanceChat(limit) ==
    /\ advances < limit
    /\ clockSteps({t \in {now + d : d \in ChatLeads} \cup activeTicks :
                      t > now /\ \A nt \in activeTicks : t <= nt})

ChatNext ==
    \/ AdvanceChat(MaxAdvances)
    \/ \E c \in {1, 2} : SendMessage(c)
    \/ \E c \in {1, 2} : SendMessageResume(c)
    \/ \E c \in {1, 2} : StopTypingResume(c)
    \/ HandleTyping(1)
    \/ StartTypingResume(1)
    \/ TypingTimeout(1)

SpecChat == ChatInit /\ [][ChatNext]_vars

(***************************************************************************)
(* SpecSession: one client's session from its connect on, with the timers  *)
(* it starts, its typing, a lost connection and its teardown.              *)
(***************************************************************************)

\* the record of the room the client opens: another user's, with a video
SessionRecords ==
    {[exists |-> TRUE, url |-> url, time |-> 0, playing |-> FALSE,
      updatedAt |-> StartTime - syncIntervalMs, hostId |-> 2] : url \in {"", YouTubeUrl}}

SessionInit ==
    /\ InitCommon
    /\ dbState \in SessionRecords
    /\ stateDirty = [c \in Clients |-> FALSE]
    /\ stateSub = [c \in Clients |-> FALSE]
    /\ presSub = [c \in Clients |-> FALSE]
    /\ nextTick = [c \in Clients |-> 0]

SessionNext ==
    \/ AdvanceToTimer(MaxTicks)
    \/ ConnectToRoom(1)
    \/ PresenceConnect(1)
    \/ PresenceValue(1, {TRUE})
    \/ UpdateRoomHostResume(1)
    \/ RoomStateValue(1)
    \/ PlayerReady(1)
    \/ SyncTick(1)
    \/ Heartbeat(1)
    \/ StoreDisconnect(1)
    \/ HandleTyping(1)
    \/ StartTypingResume(1)
    \/ TypingTimeout(1)
    \/ StopTypingResume(1)
    \/ Destroy(1)
    \/ RemovePresenceResume(1)

SpecSession == SessionInit /\ [][SessionNext]_vars

(***************************************************************************)
(* Spec: NumClients clients open the same room, which does not exist yet.  *)
(***************************************************************************)
Init ==
    /\ InitCommon
    /\ dbState = NoState
    /\ stateDirty = [c \in Clients |-> FALSE]
    /\ stateSub = [c \in Clients |-> FALSE]
    /\ presSub = [c \in Clients |-> FALSE]
    /\ nextTick = [c \in Clients |-> 0]

Next ==
    \/ Advance(MaxSteps)
    \/ \E c \in Clients : ConnectToRoom(c)
    \/ \E c \in Clients : PresenceConnect(c)
    \/ \E c \in Clients : PresenceValue(c, {TRUE})
    \/ \E c \in Clients : UpdateRoomHostResume(c)
    \/ \E c \in Clients : RoomStateValue(c)
    \/ \E c \in Clients : BecomeHostResume(c)
    \/ \E c \in Clients : UpdateRoomStateResume(c)
    \/ \E c \in Clients : PlayPauseButton(c)
    \/ \E c \in Clients : ArrowRightKey(c)
    \/ \E c \in Clients : DemoVideoButton(c)
    \/ \E c \in Clients : GestureResume(c)
    \/ \E c \in Clients : SyncTick(c)
    \/ \E c \in Clients : PlayerReady(c)
    \/ \E c \in Clients : PlayerEvent(c)

Spec == Init /\ [][Next]_vars

(***************************************************************************)
(* Claims about host election (checked under SpecPresence).                *)
(***************************************************************************)
\* the snapshot the presence listener was last called with
distinctJoinedAt(snap) ==
    \A i, j \in DOMAIN snap :
        /\ snap[i].joinedAt # 0
        /\ (i # j => snap[i].joinedAt # snap[j].joinedAt)

\* the entries of snap with now - lastSeen < 35000 ms
onlineAt(snap, t) == {i \in DOMAIN snap : t - snap[i].lastSeen < 35000}

\* the elected user of snap: the online entry with the smallest joinedAt, if any
winnerOf(snap, t) ==
    IF onlineAt(snap, t) = {} THEN NoUser
    ELSE snap[CHOOSE i \in onlineAt(snap, t) :
                 \A j \in onlineAt(snap, t) : snap[i].joinedAt <= snap[j].joinedAt].userId

\* C1: after updatePresence processed a snapshot whose entries have distinct
\* joinedAt, hostId is the userId with the smallest joinedAt among the entries
\* with now - lastSeen < 35000 ms, in whatever order the snapshot lists them.
C1_HostIsEarliestOnline ==
    (ev.op = "updatePresence" /\ distinctJoinedAt(ev.snap)
                             /\ onlineAt(ev.snap, ev.t) # {})
        => hostId[ev.c] = winnerOf(ev.snap, ev.t)

\* C1 witness: three entries with distinct joinedAt, the earliest one offline,
\* two online, and the winner listed after the other online entry
C1_Witness ==
    /\ ev.op = "updatePresence" /\ distinctJoinedAt(ev.snap) /\ Len(ev.snap) = 3
    /\ Cardinality(onlineAt(ev.snap, ev.t)) = 2
    /\ \E i \in DOMAIN ev.snap \ onlineAt(ev.snap, ev.t) :
           \A j \in onlineAt(ev.snap, ev.t) : ev.snap[i].joinedAt < ev.snap[j].joinedAt
    /\ \E i, j \in onlineAt(ev.snap, ev.t) :
           i < j /\ ev.snap[j].userId = hostId[ev.c] /\ ev.snap[i].userId # hostId[ev.c]

\* C2: an entry whose lastSeen is more than 60 s old when the snapshot is
\* processed is not in the users map, is not the host, and is not counted in
\* the viewer count, which is the number of online entries.
C2_StaleExcluded ==
    ev.op = "updatePresence" =>
        /\ \A i \in DOMAIN ev.snap :
              ev.t - ev.snap[i].lastSeen > 60000 =>
                 /\ \A k \in DOMAIN users[ev.c] :
                       users[ev.c][k].userId # ev.snap[i].userId
                 /\ hostId[ev.c] # ev.snap[i].userId
        /\ viewersCount[ev.c] = Cardinality(onlineAt(ev.snap, ev.t))

\* C2 witness: the stale entry has the smallest joinedAt and was the host
\* before this snapshot; another entry is online
C2_Witness ==
    /\ ev.op = "updatePresence"
    /\ \E i \in DOMAIN ev.snap :
          /\ ev.t - ev.snap[i].lastSeen > 60000
          /\ ev.previousHostId = ev.snap[i].userId
          /\ \A j \in DOMAIN ev.snap : ev.snap[i].joinedAt <= ev.snap[j].joinedAt
    /\ viewersCount[ev.c] = 1

\* C3: a snapshot that changes the election result sets hostId to the new
\* winner, calls updateRoomHost once with it and the callback once with
\* (newHostId, previousHostId); a snapshot that leaves the result unchanged
\* does neither.
C3_HostChange ==
    (ev.op = "updatePresence" /\ distinctJoinedAt(ev.snap)) =>
        IF winnerOf(ev.snap, ev.t) # ev.previousHostId
        THEN /\ hostId[ev.c] = winnerOf(ev.snap, ev.t)
             /\ ev.updateRoomHost = <<hostId[ev.c]>>
             /\ ev.callback = <<hostId[ev.c], ev.previousHostId>>
        ELSE /\ hostId[ev.c] = ev.previousHostId
             /\ ev.updateRoomHost = <<>>
             /\ ev.callback = <<>>

(***************************************************************************)
(* Claims about reconciliation (SpecSync).                                 *)
(***************************************************************************)
SyncOps == {"syncTick", "syncButton"}

\* currentState.time + staleness of client c at Date.now() = t, in ms
predicted(c, t) == currentState[c].time + (t - currentState[c].updatedAt)

isSeek(call) == call.f = "seek"
seeksIn(calls) == {i \in DOMAIN calls : isSeek(calls[i])}

\* C4: a syncToRemoteState without force at now - currentState.updatedAt >
\* 10000 ms issues no seek, no play and no pause, and the timer's run leaves
\* the videoPlayer and isUpdatingFromRemote as they were
C4_StaleSkipped ==
    [][(/\ ev'.op \in {"syncTick", "roomStateValue"}
        /\ ~ev'.force
        /\ now' - currentState'[ev'.c].updatedAt > 10000)
       => /\ ev'.calls = <<>>
          /\ ev'.op = "syncTick" =>
                /\ vp'[ev'.c] = vp[ev'.c]
                /\ isUpdatingFromRemote' = isUpdatingFromRemote
                /\ tasks' = tasks]_vars

\* the timer ran on a viewer with a ready player, a record older than 10 s and
\* a drift that a reconciliation would have corrected
C4_Witness ==
    /\ ev.op = "syncTick"
    /\ ~isHost[ev.c] /\ currentState[ev.c].url # "" /\ vp[ev.c].isReady
    /\ now - currentState[ev.c].updatedAt > 10000
    /\ Abs(predicted(ev.c, now) - getCurrentTime(vp[ev.c])) > 400
    /\ currentState[ev.c].playing # isPlaying(vp[ev.c])

\* C5 (as stated): every forced sync seeks
C5_AlwaysSeeks ==
    ev.op = "syncButton" => seeksIn(ev.calls) # {}

\* C5 (amended): a forced sync of a client that is not host, has a video url in
\* currentState and a ready player seeks first, to currentState.time + staleness,
\* whatever the drift and the staleness are
C5_ForcedSeeks ==
    (/\ ev.op = "syncButton"
     /\ ~isHost[ev.c] /\ currentState[ev.c].url # "" /\ vp[ev.c].isReady)
    => /\ ev.ran
       /\ ev.calls # <<>>
       /\ ev.calls[1] = Call("seek", predicted(ev.c, now))

\* a forced sync sought although the record was older than 10 s
C5_Witness ==
    /\ ev.op = "syncButton"
    /\ now - currentState[ev.c].updatedAt > 10000
    /\ ev.calls # <<>>
    /\ ev.calls[1] = Call("seek", predicted(ev.c, now))

\* C6: a reconciliation without force that was not skipped seeks if and only
\* if |currentState.time + staleness - getCurrentTime()| > 400 ms, and it seeks
\* to currentState.time + staleness
C6_SeekIffDrift ==
    [][(ev'.op = "syncTick" /\ ev'.ran)
       => LET c     == ev'.c
              drift == Abs(predicted(c, now) - getCurrentTime(vp[c]))
          IN  /\ (seeksIn(ev'.calls) # {}) <=> (drift > 400)
              /\ \A i \in seeksIn(ev'.calls) : ev'.calls[i].t = predicted(c, now)]_vars

\* time 100 s, staleness 3000 ms: the timer's reconciliation seeks to 103 s
C6_Witness ==
    /\ ev.op = "syncTick" /\ ev.ran
    /\ currentState[ev.c].time = 100000
    /\ now - currentState[ev.c].updatedAt = 3000
    /\ ev.calls # <<>>
    /\ ev.calls[1] = Call("seek", 103000)

\* C7: once the host has stopped writing (the viewer holds the record the store
\* holds, and the video has loaded), the viewer's drift
\* |time + (now - updatedAt) - localTime| is within 0.4 s when the 5-second
\* timer has run and the seek it issued has completed
C7_Converges ==
    (/\ ev.op = "syncTick"
     /\ ~isHost[ev.c]
     /\ currentState[ev.c] = dbState /\ ~stateDirty[ev.c]
     /\ currentState[ev.c].url # "" /\ vp[ev.c].isReady
     /\ tasks[ev.c] = {}
     /\ predicted(ev.c, now) <= VideoLen)
    => Abs(predicted(ev.c, now) - vp[ev.c].pos) <= 400

\* C8: a reconciliation that follows a reconciliation on the same RoomState
\* with no time elapsed issues no seek, no play and no pause
C8_Idempotent ==
    (ev.op \in SyncOps /\ ev.ran)
    => syncToRemoteState(isHost[ev.c], currentState[ev.c], vp[ev.c], now, FALSE).calls = <<>>

(***************************************************************************)
(* Claims about who writes RoomState (Spec).                               *)
(***************************************************************************)
\* C9: a client whose isHost is false does not write the RoomState record
\* through updateRoomState or becomeHost
C9_ViewerNeverWrites ==
    ev.op \in {"updateRoomState", "becomeHost"} => isHost[ev.c]

\* C10: at most one connected client has isHost = true
C10_SingleHost ==
    Cardinality({c \in Clients : stateSub[c] /\ isHost[c]}) <= 1

\* the handlers that write rooms/{roomId}/state
WriteOps == {"becomeHost", "updateRoomState", "updateRoomHost"}

\* C11: when a client that is host writes the RoomState record and the record's
\* last write was its own too (the record names it as host before and after),
\* the updatedAt it writes is not smaller than the one in the store
C11_UpdatedAtMonotone ==
    [][(/\ ev'.op \in WriteOps
        /\ dbState.exists /\ lastWriter = ev'.c
        /\ dbState.hostId = ev'.c /\ dbState'.hostId = ev'.c
        /\ isHost[ev'.c] /\ isHost'[ev'.c])
       => dbState'.updatedAt >= dbState.updatedAt]_vars

(***************************************************************************)
(* Claims about the host's controls (SpecControls).                        *)
(***************************************************************************)
\* the updateRoomState(updates) calls suspended at their await, of client c
pendingWrites(ts) == {t \in ts : t.kind = "updateRoomState"}

pendingBecomeHost(ts) == {t \in ts : t.kind = "becomeHost"}

\* C13: a client whose state listener is called with no record calls
\* becomeHost, which ends only by setting isHost and writing a record with
\* hostId = its own userId; a client whose state listener is called with a
\* record has isHost = (record.hostId = its own userId) afterwards
C13_ConnectRole ==
    [][LET c == ev'.c
       IN  /\ (ev'.op = "roomStateValue" /\ ~dbState.exists) =>
                 pendingBecomeHost(tasks'[c]) # {}
           /\ (ev'.op = "roomStateValue" /\ dbState.exists) =>
                 isHost'[c] = (dbState.hostId = c)
           /\ \A d \in Clients :
                 pendingBecomeHost(tasks[d]) \ pendingBecomeHost(tasks'[d]) # {}
                     => ev'.op = "becomeHost" /\ c = d
           /\ ev'.op = "becomeHost" =>
                 /\ isHost'[c]
                 /\ dbState'.exists /\ dbState'.hostId = c
                 /\ lastWriter' = c]_vars

\* before any presence election, a client found no record, became host and
\* wrote one naming itself, then found that record and stayed host; another
\* client found the record and is a viewer
C13_Witness ==
    /\ ev.op = "roomStateValue"
    /\ \A d \in Clients : hostId[d] = NoUser
    /\ \E h \in Clients \ {ev.c} :
          /\ dbState.hostId = h /\ lastWriter = h /\ isHost[h]
          /\ currentState[h] = dbState
    /\ currentState[ev.c] = dbState /\ ~isHost[ev.c]

(***************************************************************************)
(* Claims about the join (SpecSync).                                       *)
(***************************************************************************)
\* C14: when the state listener of a client that is not the host has been
\* called with a record that has a video, its reconciliation was a forced one
\* and sought the videoPlayer to currentState.time + staleness
C14_JoinSeeks ==
    (/\ ev.op = "roomStateValue"
     /\ ~isHost[ev.c] /\ currentState[ev.c].url # "")
    => /\ ev.force
       /\ \E i \in DOMAIN ev.calls : ev.calls[i] = Call("seek", predicted(ev.c, now))

(***************************************************************************)
(* Claims about the controls (SpecControls).                               *)
(***************************************************************************)
ControlOps ==
    {"playPauseClick", "arrowKey", "seekSliderInput", "loadVideoFromInput",
     "demoVideoClick"}

\* C15: a playback control (play/pause, seek slider, arrow keys, load video,
\* demo video) used on a client whose isHost is false changes nothing of its
\* videoPlayer, suspends no function, and leaves the RoomState record and the
\* client's copy of it as they were
C15_ViewerControlsInert ==
    [][(ev'.op \in ControlOps /\ ~isHost[ev'.c])
       => /\ vp'[ev'.c] = vp[ev'.c]
          /\ tasks'[ev'.c] = tasks[ev'.c]
          /\ dbState' = dbState
          /\ currentState' = currentState]_vars

\* a viewer whose videoPlayer is ready and paused has pressed play
C15_Witness ==
    /\ ev.op = "playPauseClick"
    /\ ~isHost[ev.c]
    /\ vp[ev.c].isReady /\ vp[ev.c].type = "youtube" /\ ~vp[ev.c].playing
    /\ dbState.hostId # ev.c /\ currentState[ev.c] = dbState

(***************************************************************************)
(* Claims about the role (Spec).                                           *)
(***************************************************************************)
\* C16: once a client has taken over a record of the store (its connect is
\* over), a later call of its state listener with a record leaves its isHost
\* as it was: only the host-change callback of the presence changes the role
C16_SnapshotKeepsRole ==
    [][(ev'.op = "roomStateValue" /\ currentState[ev'.c].exists /\ dbState.exists)
       => isHost'[ev'.c] = isHost[ev'.c]]_vars

\* every client is connected, has processed the last presence snapshot and the
\* last record, and has no function suspended: nothing but the timer, a user
\* or the clock can act
converged ==
    /\ settled
    /\ \A c \in Clients : stateSub[c] /\ presSub[c] /\ hostId[c] = hostId[1]
    /\ hostId[1] # NoUser

\* C17: once the presence has converged and every pending function has run,
\* exactly the elected client has isHost = true and the hostId of the stored
\* record is its userId
C17_ElectionHeals ==
    converged =>
        /\ \A c \in Clients : isHost[c] <=> (c = hostId[1])
        /\ dbState.hostId = hostId[1]

(***************************************************************************)
(* Claims about the videoPlayer (SpecControls).                            *)
(***************************************************************************)
\* RoomManager.loadVideo(url) fails: validateVideoUrl rejects url, or no video
\* id is extracted from it
loadFails(url) ==
    \/ ~validated[url].ok
    \/ ~videoIds[validated[url].type, validated[url].url]

\* C18: when the host's load of a video fails while a video is loaded and
\* ready, the videoPlayer's type, ready flag, position and playing flag, the
\* backend under it and the RoomState record are what they were before
C18_FailedLoadKeeps ==
    [][(/\ ev'.op = "loadVideoFromInput" /\ isHost[ev'.c] /\ vp[ev'.c].isReady
        /\ ev'.url # "" /\ loadFails(ev'.url))
       => /\ vp'[ev'.c].type = vp[ev'.c].type
          /\ vp'[ev'.c].isReady = vp[ev'.c].isReady
          /\ vp'[ev'.c].pos = vp[ev'.c].pos
          /\ vp'[ev'.c].bplaying = vp[ev'.c].bplaying
          /\ vp'[ev'.c].playing = vp[ev'.c].playing
          /\ dbState' = dbState]_vars

\* the listeners that call play, pause, seek, setVolume or toggleMute of the
\* videoPlayer and nothing else of it
AdapterOps ==
    {"playPauseClick", "arrowKey", "seekSliderInput", "muteClick", "volumeInput"}

\* what the getters return while the videoPlayer is not ready
gettersDefault(p) ==
    /\ getCurrentTime(p) = 0 /\ getDuration(p) = 0
    /\ ~isPlaying(p) /\ ~isMuted(p)

\* C19: while the videoPlayer is not ready, play, pause, seek, setVolume and
\* toggleMute leave every field of it as it was, and getCurrentTime,
\* getDuration, isPlaying and isMuted return 0, 0, false and false
C19_NotReadyInert ==
    [][/\ (ev'.op \in AdapterOps /\ ~vp[ev'.c].isReady) => vp'[ev'.c] = vp[ev'.c]
       /\ \A c \in Clients : ~vp'[c].isReady => gettersDefault(vp'[c])]_vars

\* C20: whatever the number of loadVideo calls before it, one animation frame
\* of the polling loop calls callbacks.onSeek at most once (the position has
\* jumped at most once since the frame before)
C20_OneSeekPerFrame ==
    ev.op = "trackFrame" => Len(ev.onSeek) <= 1

(***************************************************************************)
(* Claims about the session's timers and its presence entry (SpecSession). *)
(***************************************************************************)
\* C21: once destroy() has been called on a client, no heartbeat interval, no
\* sync interval, no typing timeout and no polling closure of the videoPlayer
\* is scheduled on it, whatever was still suspended when it was called
C21_TeardownStopsTimers ==
    \A c \in Clients :
        destroyed[c] =>
            /\ heartbeatInterval[c] = 0
            /\ nextTick[c] = 0
            /\ typingTimeout[c] = 0
            /\ vp[c].loops = <<>>

\* C22: the presence entry of a client comes into being only through the
\* connect of a session that has not been torn down: once the entry is gone
\* (removePresence, or the store's cleanup on a lost connection), nothing the
\* session does later creates it again
C22_EntryNotRecreated ==
    [][\A c \in Clients :
          (~dbPresence[c].present /\ dbPresence'[c].present)
          => (ev'.op = "presenceConnect" /\ ~destroyed[c])]_vars

(***************************************************************************)
(* Claims about validateVideoUrl (SpecLocator).                            *)
(***************************************************************************)
\* the host has loaded the locator url from the input field
hostLoads(url) ==
    ev'.op = "loadVideoFromInput" /\ isHost[ev'.c] /\ ev'.url = url

\* VideoPlayer.loadVideo was called with this type and this url
acceptedAs(type, url) ==
    /\ vp'[ev'.c].type = type /\ vp'[ev'.c].cbUrl = url
    /\ vp'[ev'.c].cbUpdateState /\ ~vp'[ev'.c].isReady

\* VideoPlayer.loadVideo was not called
rejected == vp'[ev'.c] = vp[ev'.c]

\* what holds of the embedded streams and of a locator that is no video
canonicalStreams ==
    /\ hostLoads("https://youtu.be/XYZ") => acceptedAs("youtube", YouTubeUrl)
    /\ hostLoads(YouTubeUrl) => acceptedAs("youtube", YouTubeUrl)
    /\ hostLoads("https://vimeo.com/video/12345") => acceptedAs("vimeo", VimeoUrl)
    /\ hostLoads(VimeoUrl) => acceptedAs("vimeo", VimeoUrl)
    /\ hostLoads(BadUrl) => rejected

\* C23: validateVideoUrl maps https://youtu.be/XYZ and the watch?v=XYZ
\* locator to one url, https://vimeo.com/12345 and https://vimeo.com/video/12345
\* to one url, accepts foo.MP4 and foo.mp4 and rejects
\* https://example.com/notvideo
C23_AsStated ==
    [][/\ canonicalStreams
       /\ hostLoads("foo.MP4") => acceptedAs("mp4", "foo.MP4")
       /\ hostLoads("foo.mp4") => acceptedAs("mp4", "foo.mp4")]_vars

\* C23, amended: the same for the embedded streams; the direct file is
\* accepted with either case of its extension when the locator is an absolute
\* http(s) url, and the bare names foo.MP4 and foo.mp4 are rejected
C23_Canonical ==
    [][/\ canonicalStreams
       /\ hostLoads("https://cdn.example.com/foo.MP4")
            => acceptedAs("mp4", "https://cdn.example.com/foo.MP4")
       /\ hostLoads(Mp4Url) => acceptedAs("mp4", Mp4Url)
       /\ hostLoads("foo.MP4") => rejected
       /\ hostLoads("foo.mp4") => rejected]_vars

\* the host has loaded https://youtu.be/XYZ and the videoPlayer holds the
\* watch?v=XYZ locator
C23_Witness ==
    /\ ev.op = "loadVideoFromInput" /\ ev.url = "https://youtu.be/XYZ"
    /\ isHost[ev.c]
    /\ vp[ev.c].type = "youtube" /\ vp[ev.c].cbUrl = YouTubeUrl /\ vp[ev.c].loading

\* a locator of one of the three kinds the specification names: a YouTube
\* host, a Vimeo host, or a path that ends in .mp4
recognized(url) ==
    /\ urlParses(url)
    /\ \/ includes(hostnameOf(url), "youtube.com")
       \/ includes(hostnameOf(url), "youtu.be")
       \/ includes(hostnameOf(url), "vimeo.com")
       \/ endsWith(toLowerCase(pathnameOf(url)), ".mp4")

\* C24: a locator that is neither a YouTube url, nor a Vimeo url, nor a url
\* that ends in a video extension is rejected: VideoPlayer.loadVideo is not
\* called for it
C24_OnlyRecognized ==
    [][(/\ ev'.op = "loadVideoFromInput" /\ isHost[ev'.c]
        /\ ev'.url # "" /\ ~recognized(ev'.url))
       => rejected]_vars

(***************************************************************************)
(* Claims about the debounced seek slider (SpecDebounce).                  *)
(***************************************************************************)
\* C25: the seek of a host's slider input is applied only after 300 ms
\* without further input, once, and for the value of the last input
C25_DebouncedSeek ==
    [][(ev'.op = "debounceFires" /\ isHost[ev'.c] /\ vp[ev'.c].isReady)
       => /\ now >= ev'.at
          /\ ev'.time = (ev'.input * getDuration(vp[ev'.c])) \div 100
          /\ vp'[ev'.c].pos = ev'.time
          /\ \E task \in tasks'[ev'.c] :
                 task.kind \in {"seek", "seekAwait"} /\ task.time = ev'.time]_vars

(***************************************************************************)
(* Claims about the callbacks of a reconciliation (SpecHandover).          *)
(***************************************************************************)
\* the calls of updateRoomState of client c that are suspended in ts
updateCalls(ts) == {task \in ts : task.kind = "updateRoomState"}

\* C26: an onPlay / onPause / onSeek callback that fires as a result of a
\* seek, play or pause issued by syncToRemoteState calls no updateRoomState,
\* also when the client has become host since the reconciliation
C26_RemoteCallbackSilent ==
    [][(ev'.op \in {"playerEvent", "trackFrame"})
       => updateCalls(tasks'[ev'.c]) \subseteq updateCalls(tasks[ev'.c])]_vars

(***************************************************************************)
(* Claims about a write the store rejects (SpecLocator).                   *)
(***************************************************************************)
\* C27: when the write of updateRoomState fails in the store, the client's
\* currentState keeps the value it tried to write and the record is unchanged
C27_FailedWriteKept ==
    [][(ev'.op = "updateRoomStateFails")
       => /\ dbState' = dbState
          /\ currentState'[ev'.c].updatedAt = now
          /\ currentState'[ev'.c].hostId = ev'.c
          /\ "url" \in ev'.upd.has => currentState'[ev'.c].url = ev'.upd.url
          /\ "time" \in ev'.upd.has => currentState'[ev'.c].time = ev'.upd.time
          /\ "playing" \in ev'.upd.has
                => currentState'[ev'.c].playing = ev'.upd.playing]_vars

\* the write of a newly loaded video's url has failed: the client's
\* currentState names the url and the record does not
C27_Witness ==
    /\ ev.op = "updateRoomStateFails"
    /\ "url" \in ev.upd.has
    /\ currentState[ev.c].url = ev.upd.url
    /\ dbState.url # ev.upd.url

(***************************************************************************)
(* Claims about the chat's rate limit (SpecChat).                          *)
(***************************************************************************)
\* the messages of client c in the store
messagesOf(c) == SelectSeq(dbChat, LAMBDA msg : msg.userId = c)

\* a valid text is given to sendMessage of client c, no call of which was
\* accepted in the last 800 ms
dueSend(c) ==
    /\ ev'.op = "sendMessage" /\ ev'.c = c /\ ev'.outcome # "invalid"
    /\ \A i \in DOMAIN sendLog[c] :
          sendLog[c][i].accepted => now - sendLog[c][i].at >= timeWindow

\* C28: a client pushes at most one chat message in any 800 ms window; a
\* sendMessage less than 800 ms after the accepted one pushes nothing, and
\* does not postpone the moment the next one is accepted
C28_OneMessagePerWindow ==
    [][\A c \in Clients :
          /\ (ev'.op = "push" /\ ev'.c = c)
                => \A i \in DOMAIN messagesOf(c) :
                       now - messagesOf(c)[i].timestamp >= timeWindow
          /\ (ev'.op = "sendMessage" /\ ev'.c = c /\ ev'.outcome = "limited")
                => /\ tasks' = tasks /\ dbChat' = dbChat
                   /\ ~dueSend(c)
          /\ dueSend(c) => ev'.outcome = "accepted"]_vars

\* a message of client 1 was pushed, a sendMessage 400 ms later was refused,
\* and the one 800 ms after the first was accepted and pushed
C28_Witness ==
    /\ ev.op = "push" /\ ev.c = 1 /\ ev.pushed
    /\ Len(messagesOf(1)) = 2
    /\ messagesOf(1)[2].timestamp - messagesOf(1)[1].timestamp = timeWindow
    /\ Len(sendLog[1]) = 3
    /\ ~sendLog[1][2].accepted
    /\ sendLog[1][1].at < sendLog[1][2].at /\ sendLog[1][2].at < sendLog[1][3].at

(***************************************************************************)
(* Claims about the reconciliation (SpecSync).                             *)
(***************************************************************************)
\* C29: when the state listener of a viewer whose video is loaded and ready is
\* called with a changed record, its reconciliation is not skipped: it takes
\* effect at once, without the sync interval
C29_ChangeReconciles ==
    [][(/\ ev'.op = "roomStateValue"
        /\ ~isHost'[ev'.c] /\ currentState'[ev'.c].url # ""
        /\ vp[ev'.c].isReady)
       => ev'.ran]_vars

\* the handlers that call syncToRemoteState
ReconcileOps == {"roomStateValue", "syncTick", "syncButton"}

\* how often the reconciliation called f on the videoPlayer
callsOf(calls, f) == Len(SelectSeq(calls, LAMBDA call : call.f = f))

\* C30: a reconciliation that is not skipped calls play() exactly when
\* currentState.playing and the adapter reports not playing, pause() exactly
\* when currentState.playing is false and the adapter reports playing, and
\* neither otherwise, whether or not it seeks
C30_PlayPauseAligned ==
    [][(ev'.op \in ReconcileOps /\ ev'.ran)
       => LET c         == ev'.c
              record    == currentState'[c].playing
              reported  == isPlaying(vp[c])
          IN  /\ callsOf(ev'.calls, "play") = IF record /\ ~reported THEN 1 ELSE 0
              /\ callsOf(ev'.calls, "pause") = IF ~record /\ reported THEN 1 ELSE 0]_vars

\* a reconciliation that did not seek has called play()
C30_Witness ==
    /\ ev.op \in ReconcileOps /\ ev.ran
    /\ ev.calls = <<Call("play", 0)>>

(***************************************************************************)
(* Claims about the reconciliation of a host (SpecHandover).               *)
(***************************************************************************)
\* C31: a call of syncToRemoteState (of the sync interval, of the state
\* listener or of the sync button) on a client whose isHost is true issues no
\* seek, play or pause and leaves the videoPlayer as the handler's other
\* statements left it
C31_HostNotReconciled ==
    [][(ev'.op \in ReconcileOps /\ isHost'[ev'.c])
       => /\ ~ev'.ran /\ ev'.calls = <<>>
          /\ ev'.op # "roomStateValue" => vp'[ev'.c] = vp[ev'.c]]_vars

\* the sync button was pressed on a host whose video is ready, and whose
\* position differs from the record's by more than 0.4 s
C31_Witness ==
    /\ ev.op = "syncButton" /\ isHost[ev.c]
    /\ vp[ev.c].isReady /\ currentState[ev.c].url # ""
    /\ Abs(predicted(ev.c, now) - getCurrentTime(vp[ev.c])) > driftMs

(***************************************************************************)
(* Claims about the write of a host change (SpecHandover).                 *)
(***************************************************************************)
\* the suspended calls that will write the record
writeCalls(ts) == {task \in ts : task.kind \in {"updateRoomState", "becomeHost"}}

\* C32: the write of updateRoomHost changes only hostId and updatedAt of the
\* record (url, time and playing are kept), and the host-change callback
\* writes nothing and starts no other write of the record
C32_HostChangeFrame ==
    [][/\ ev'.op = "updateRoomHost"
            => /\ dbState'.url = dbState.url
               /\ dbState'.time = dbState.time
               /\ dbState'.playing = dbState.playing
               /\ dbState'.updatedAt = now
       /\ (ev'.op = "updatePresence" /\ ev'.callback # <<>>)
            => /\ dbState' = dbState
               /\ writeCalls(tasks'[ev'.c]) = writeCalls(tasks[ev'.c])]_vars

\* the viewer was elected and its updateRoomHost has written: the record
\* names it and still holds the video at 100 s
C32_Witness ==
    /\ ev.op = "updateRoomHost" /\ isHost[ev.c]
    /\ dbState.hostId = ev.c /\ dbState.updatedAt = now
    /\ dbState.url # "" /\ dbState.time = 100000

\* C33: every write that sets a fresh updatedAt stores in time the playback
\* position, at that instant, of the host the record names
C33_TimeAsOfUpdatedAt ==
    [][(/\ ev'.op \in {"updateRoomState", "updateRoomHost"}
        /\ dbState'.updatedAt = now /\ dbState'.url # ""
        /\ dbState'.hostId \in Clients
        /\ vp[dbState'.hostId].isReady)
       => dbState'.time = getCurrentTime(vp[dbState'.hostId])]_vars

(***************************************************************************)
(* Claims about the predicted time (SpecSync).                             *)
(***************************************************************************)
\* a reconciliation of a paused record has run, d ms after its updatedAt with
\* 0.4 s < d <= 10 s
pausedReconciled ==
    /\ ev'.op \in ReconcileOps /\ ev'.ran
    /\ ~currentState'[ev'.c].playing
    /\ now - currentState'[ev'.c].updatedAt > driftMs
    /\ now - currentState'[ev'.c].updatedAt <= ignoreOldMs

\* C34: the predicted time of a paused record is time + d as for a playing
\* one: a viewer of a paused record that is reconciled d seconds after
\* updatedAt, 0.4 < d <= 10, is seeked to time + d when its position differs
\* from it by more than 0.4 s or the reconciliation is forced, and is left
\* where it is when it is already there
C34_PausedDrifts ==
    [][pausedReconciled
       => LET c      == ev'.c
              target == currentState'[c].time + (now - currentState'[c].updatedAt)
              drift  == Abs(target - getCurrentTime(vp[c]))
          IN  IF drift > driftMs \/ ev'.force
              THEN \E i \in DOMAIN ev'.calls : ev'.calls[i] = Call("seek", target)
              ELSE callsOf(ev'.calls, "seek") = 0]_vars

\* the sync interval has reconciled a record that is paused at 0 s, 5 s
\* after its updatedAt, and has seeked the viewer to 5 s
C34_Witness ==
    /\ ev.op = "syncTick" /\ ev.ran
    /\ ~currentState[ev.c].playing /\ currentState[ev.c].time = 0
    /\ now - currentState[ev.c].updatedAt = syncIntervalMs
    /\ ev.calls = <<Call("seek", syncIntervalMs)>>

(***************************************************************************)
(* Claims about the polling of the position (SpecControls).                *)
(***************************************************************************)
\* the lastTime of the trackTime closure that was started for the player the
\* adapter holds now: the position seen at the previous poll of that player,
\* 0 before its first poll
lastPolled(p) == p.loops[Len(p.loops)]

\* C35: in an animation frame of the youtube adapter the onSeek callback
\* fires if the position of the player differs by more than 1 s from the one
\* seen at the previous poll of that player, and not otherwise; in particular
\* not at the first poll after a video is loaded
C35_SeekIffJump ==
    [][(ev'.op = "trackFrame" /\ vp[ev'.c].type = "youtube" /\ vp[ev'.c].loops # <<>>)
       => LET p == vp[ev'.c]
          IN  IF p.isReady /\ Abs(p.pos - lastPolled(p)) > 1000
              THEN ev'.onSeek # <<>>
              ELSE ev'.onSeek = <<>>]_vars


(***************************************************************************)
(* SpecFirstWrite: NumClients clients open the same new room, and the host *)
(* may load the demo video while another client is still joining.          *)
(***************************************************************************)
\* the click listener of #demo-video-btn for a host whose own page is at
\* rest, while another client has a write or a snapshot outstanding
DemoVideoWhileJoining(c) ==
    /\ stateSub[c] /\ isHost[c] /\ idle(c) /\ ~settled
    /\ vp[c].type = ""
    /\ vp' = [vp EXCEPT ![c] = loadVideo(@, Mp4Url, TRUE)]
    /\ ev' = [op |-> "demoVideoButton", c |-> c]
    /\ UNCHANGED <<envVars, storeVars, isHost, currentState, isUpdatingFromRemote,
                   nextTick, pmVars, tasks, subVars, stateDirty, presDirty,
                   lifeVars, chatVars>>

FirstWriteNext ==
    \/ Next
    \/ \E c \in Clients : DemoVideoWhileJoining(c)

SpecFirstWrite == Init /\ [][FirstWriteNext]_vars

(***************************************************************************)
(* Claims about the first write of a room (checked under SpecFirstWrite).  *)
(***************************************************************************)
\* C36: the write of becomeHost never replaces a record that holds a video:
\* once the stored record has a non-empty url, a write of becomeHost leaves
\* its url, time and playing as they were
C36_BecomeHostKeepsRecord ==
    [][(ev'.op = "becomeHost" /\ dbState.exists /\ dbState.url # "")
       => /\ dbState'.url = dbState.url
          /\ dbState'.time = dbState.time
          /\ dbState'.playing = dbState.playing]_vars

(***************************************************************************)
(* Claims about the snapshot handler's load step (SpecControls).           *)
(***************************************************************************)
\* C37: a change of the record that leaves url as the client has it and has
\* it loaded (the record of a play or of a seek, not the one a load writes)
\* does not reload or reset the client's player: a player that was ready is
\* ready after the handler, and the host's player (which the handler does not
\* reconcile) keeps its position and its playing state
C37_SameUrlKeepsPlayer ==
    [][(/\ ev'.op = "roomStateValue"
        /\ dbState.exists /\ dbState.url # ""
        /\ dbState.url = currentState[ev'.c].url
        /\ dbState.url = vp[ev'.c].cbUrl
        /\ dbState.playing \/ dbState.time > 0
        /\ vp[ev'.c].isReady)
       => /\ vp'[ev'.c].isReady
          /\ isHost'[ev'.c] => /\ vp'[ev'.c].pos = vp[ev'.c].pos
                               /\ vp'[ev'.c].playing = vp[ev'.c].playing]_vars

(***************************************************************************)
(* Claims about the host after a presence snapshot (SpecPresence).         *)
(***************************************************************************)
\* C38: after updatePresence has processed a snapshot, an empty one included,
\* the client's hostId is none or the userId of an entry of that snapshot
\* that is online at that time (seen less than 35 s before)
C38_HostInSnapshot ==
    ev.op = "updatePresence"
    => \/ hostId[ev.c] = NoUser
       \/ \E i \in DOMAIN ev.snap :
             /\ ev.snap[i].userId = hostId[ev.c]
             /\ isOnline(ev.snap[i], ev.t)

(***************************************************************************)
(* Claims about the presence entries in the store (SpecSession).           *)
(***************************************************************************)
\* C39: every presence entry the store holds for a client has a name, a
\* joinedAt and a lastSeen (a missing field is "" or 0 in the model): the
\* heartbeat never leaves an entry without them
C39_EntriesComplete ==
    \A c \in Clients :
        dbPresence[c].present
        => /\ dbPresence[c].name # ""
           /\ dbPresence[c].joinedAt # 0
           /\ dbPresence[c].lastSeen # 0

(***************************************************************************)
(* Claims about isUpdatingFromRemote (SpecSync).                           *)
(***************************************************************************)
\* C40: isUpdatingFromRemote is false whenever a handler starts, that is in
\* every state between two handlers: a syncToRemoteState that sets the flag
\* resets it before it returns
C40_FlagClearBetweenHandlers == \A c \in Clients : ~isUpdatingFromRemote[c]

\* a reconciliation has passed both returns and called the videoPlayer
C40_Witness ==
    /\ ev.op \in ReconcileOps /\ ev.ran
    /\ callsOf(ev.calls, "seek") = 1 /\ callsOf(ev.calls, "play") = 1
    /\ ~isUpdatingFromRemote[ev.c]


=============================================================================
